---- MODULE Spec2Model ----
(***************************************************************************)
(* Model of the multi-registrar price discovery service                    *)
(* (app/services/multi_registrar_service.py) and of the collaborators it   *)
(* mutates (app/core/cache.py, app/core/monitoring.py).                    *)
(* The sliding-window rate limiter of the API routes                       *)
(* (app/core/rate_limiter.py) is modelled beside it, on its own variables. *)
(*                                                                         *)
(* Money.  The source computes in floats; the model computes the same      *)
(* decimal values exactly, in integers:                                    *)
(*   - a price or amount of a currency is held in thousandths of that      *)
(*     currency (8.39 USD = 8390);                                         *)
(*   - an exchange rate to USD is held in ten-thousandths (0.012 = 120),   *)
(*     an exchange rate from USD in hundredths (83.0 = 8300);              *)
(*   - customer_price is held in hundred-thousandths of the customer       *)
(*     currency, the unit in which amount_usd * rate is exact;             *)
(*   - margin_percent is held in hundredths of a percent, rounded down.    *)
(* Wall-clock values (response_time_ms, checked_at's value, the running    *)
(* average of response times) are not modelled.                            *)
(***************************************************************************)
EXTENDS Integers, Sequences, FiniteSets, TLC

VARIABLES
    cache,        \* the Redis store behind app.core.cache: key -> entry
    session,      \* MultiRegistrarService.session: whether initialize() has run
    metrics,      \* app.core.monitoring: the request counters
    tasks,        \* the get_domain_pricing calls of the current request
    request,      \* the request being served: none, a single call or a bulk check
    ncalls,       \* get_domain_pricing calls started so far
    redis_up,     \* whether the Redis server behind app.core.cache answers
    fn_pc,        \* pure-function harness: position
    fn_responses, \* pure-function harness: the list of registrar records
    fn_location,  \* pure-function harness: the customer location
    fn_cheapest,  \* pure-function harness: what _find_cheapest_available returned
    fn_quote,     \* pure-function harness: what _apply_geographic_markup returned
    rl_now,       \* rate limiter: int(time.time()), in seconds
    rl_zset,      \* rate limiter: the sorted set rate_limit:{identifier}, member -> score
    rl_params,    \* rate limiter: max_requests and window_seconds of the caller
    rl_calls,     \* rate limiter: is_allowed calls made so far
    rl_result,    \* rate limiter: what the latest is_allowed call returned
    rl_granted,   \* rate limiter: the calls that returned True, oldest first
    orders,       \* DomainPurchaseService.orders: order id -> order
    creates,      \* the create_purchase_order calls, oldest first
    payments,     \* the process_payment calls, oldest first
    registrations, \* the _process_domain_registration tasks, oldest first
    cancelled,    \* the orders for which cancel_domain_order answered success
    cart_items,   \* cart checkout: the cart_items table, id -> row
    cart_orders,  \* cart checkout: the orders table, a set of rows
    order_items,  \* cart checkout: the order_items table, a set of rows
    checkouts,    \* cart checkout: the checkout requests, oldest first
    price_pc,     \* tier-price harness: position
    price_input,  \* tier-price harness: the product's tiers and the quantity
    price_output, \* tier-price harness: what get_price_for_quantity returned
    vendor_pc,    \* vendor harness: position
    vendor,       \* vendor harness: the Vendor row
    vendor_risk   \* vendor harness: calculate_risk_score without and with GST

vars == <<cache, session, metrics, tasks, request, ncalls, redis_up,
          fn_pc, fn_responses, fn_location, fn_cheapest, fn_quote,
          rl_now, rl_zset, rl_params, rl_calls, rl_result, rl_granted,
          orders, creates, payments, registrations, cancelled,
          cart_items, cart_orders, order_items, checkouts,
          price_pc, price_input, price_output,
          vendor_pc, vendor, vendor_risk>>

svc_vars == <<cache, session, metrics, tasks, request, ncalls>>
fn_vars == <<fn_pc, fn_responses, fn_location, fn_cheapest, fn_quote>>
\* what the actions of the service, and of the harness, leave alone
rl_vars == <<rl_now, rl_zset, rl_params, rl_calls, rl_result, rl_granted>>
po_vars == <<orders, creates, payments, registrations, cancelled>>
cart_vars == <<cart_items, cart_orders, order_items, checkouts>>
price_vars == <<price_pc, price_input, price_output>>
vendor_vars == <<vendor_pc, vendor, vendor_risk>>
shop_vars == <<po_vars, cart_vars, price_vars, vendor_vars>>
not_po_vars == <<fn_vars, redis_up, rl_vars, cart_vars, price_vars, vendor_vars>>
not_svc_vars == <<fn_vars, redis_up, rl_vars, shop_vars>>
not_fn_vars == <<svc_vars, redis_up, rl_vars, shop_vars>>

-----------------------------------------------------------------------------
(* Bounds of the model *)

\* get_domain_pricing calls in one run of the service model
MaxCalls == 2
\* domains in one bulk_check_domains request
MaxBatch == 2
\* is_allowed calls in one run of the rate limiter model
MaxRlCalls == 4
\* seconds the clock of the rate limiter model runs for
MaxRlTime == 3
\* largest max_requests and largest window_seconds a caller passes
MaxRlRequests == 2
MaxRlWindow == 2
\* registrar records in an input list of the pure-function harness
MaxLen == 3

-----------------------------------------------------------------------------
(* Python's None and Optional values: None is <<>>, a value v is <<v>> *)

None == <<>>
Some(v) == <<v>>

\* dict.get(key, default)
Get(d, key, default) == IF key \in DOMAIN d THEN d[key] ELSE default

-----------------------------------------------------------------------------
(* Configuration: multi_registrar_service.py lines 35-140 *)

\* The registrars queried, in the order of REGISTRAR_APIS.  The source
\* configures eight; the model queries the first two, one whose parser reads
\* the price from the payload and one whose parser uses the configured average.
REGISTRAR_APIS == <<
    [name |-> "porkbun",  avg_price |-> 7850, timeout |-> 8],
    [name |-> "namesilo", avg_price |-> 8390, timeout |-> 10] >>

RegistrarIds == 1..Len(REGISTRAR_APIS)

LOCATION_MARKUP ==
    [ US        |-> [amount |-> 2000,   currency |-> "USD", symbol |-> "$"],
      India     |-> [amount |-> 100000, currency |-> "INR", symbol |-> "Rs"],
      UK        |-> [amount |-> 1500,   currency |-> "GBP", symbol |-> "GBP"],
      EU        |-> [amount |-> 1500,   currency |-> "EUR", symbol |-> "EUR"],
      Canada    |-> [amount |-> 2500,   currency |-> "CAD", symbol |-> "C$"],
      Australia |-> [amount |-> 2000,   currency |-> "AUD", symbol |-> "A$"],
      Germany   |-> [amount |-> 1500,   currency |-> "EUR", symbol |-> "EUR"],
      France    |-> [amount |-> 1500,   currency |-> "EUR", symbol |-> "EUR"],
      Japan     |-> [amount |-> 200000, currency |-> "JPY", symbol |-> "JPY"],
      Brazil    |-> [amount |-> 8000,   currency |-> "BRL", symbol |-> "R$"],
      default   |-> [amount |-> 1000,   currency |-> "USD", symbol |-> "$"] ]

MIN_PROFIT_MARGIN == 1500
MAX_MARKUP_PERCENT == 50

CACHE_TTL == [available |-> 300, taken |-> 3600, pricing |-> 1800, error |-> 60]

-----------------------------------------------------------------------------
(* Records *)

\* RegistrarResponse(...): response_time_ms is wall-clock and left out
RegistrarResponse(registrar, domain, available, price, premium, error) ==
    [registrar |-> registrar, domain |-> domain, available |-> available,
     price |-> price, currency |-> "USD", premium |-> premium, error |-> error]

\* DomainPriceResult(...) with __post_init__: a missing registrar_responses
\* becomes the empty list, checked_at becomes a datetime
DomainPriceResult(domain, wholesale_price, wholesale_registrar, customer_price, customer_currency, customer_symbol, margin_amount, margin_percent, available, premium, registrar_responses) ==
    [domain |-> domain,
     wholesale_price |-> wholesale_price,
     wholesale_registrar |-> wholesale_registrar,
     customer_price |-> customer_price,
     customer_currency |-> customer_currency,
     customer_symbol |-> customer_symbol,
     margin_amount |-> margin_amount,
     margin_percent |-> margin_percent,
     available |-> available,
     premium |-> premium,
     registrar_responses |->
         IF registrar_responses = None THEN <<>> ELSE registrar_responses,
     checked_at |-> "datetime"]

-----------------------------------------------------------------------------
(* Currency conversion *)

\* _convert_to_usd: amount * rate, the rate defaulting to 1.0
convert_to_usd(amount, currency) ==
    LET exchange_rates == [INR |-> 120, EUR |-> 10800, GBP |-> 12700,
                           CAD |-> 7400, AUD |-> 6700, JPY |-> 67,
                           BRL |-> 1800]
        rate == Get(exchange_rates, currency, 10000)
    IN  (amount * rate) \div 10000

\* _convert_from_usd: amount_usd * rate, the rate defaulting to 1.0; the
\* result is in hundred-thousandths of the currency
convert_from_usd(amount_usd, currency) ==
    LET exchange_rates == [INR |-> 8300, EUR |-> 93, GBP |-> 79,
                           CAD |-> 135, AUD |-> 150, JPY |-> 14900,
                           BRL |-> 550]
        rate == Get(exchange_rates, currency, 100)
    IN  amount_usd * rate

-----------------------------------------------------------------------------
(* _find_cheapest_available *)

\* mutant: a sort that puts a record before the records of equal price
RECURSIVE InsertBeforeEqual(_, _)
InsertBeforeEqual(sorted, r) ==
    IF sorted = <<>> THEN <<r>>
    ELSE IF r.price[1] <= Head(sorted).price[1]
         THEN <<r>> \o sorted
         ELSE <<Head(sorted)>> \o InsertBeforeEqual(Tail(sorted), r)

\* list.sort(key=lambda x: x.price): a stable sort, here by insertion
RECURSIVE InsertByPrice(_, _)
InsertByPrice(sorted, r) ==
    IF sorted = <<>> THEN <<r>>
    ELSE IF r.price[1] < Head(sorted).price[1]
         THEN <<r>> \o sorted
         ELSE <<Head(sorted)>> \o InsertByPrice(Tail(sorted), r)

RECURSIVE SortByPrice(_)
SortByPrice(rs) ==
    IF rs = <<>> THEN <<>>
    ELSE InsertByPrice(SortByPrice(SubSeq(rs, 1, Len(rs) - 1)), rs[Len(rs)])

IsAvailableWithPrice(r) == r.available /\ r.price # None

\* the filter of line 460: [r for r in responses if r.available and r.price is not None]
AvailableResponses(responses) == SelectSeq(responses, IsAvailableWithPrice)

\* mutant: the sort by price left out
FirstAvailable(responses) ==
    LET available_responses == AvailableResponses(responses)
    IN  IF available_responses = <<>> THEN None
        ELSE Some(available_responses[1])

find_cheapest_available(responses) ==
    LET available_responses == AvailableResponses(responses)
    IN  IF available_responses = <<>> THEN None
        ELSE Some(SortByPrice(available_responses)[1])

-----------------------------------------------------------------------------
(* _apply_geographic_markup *)

\* mutant: an unknown location priced with the rule of "US"
FallbackUS(customer_location) ==
    Get(LOCATION_MARKUP, customer_location, LOCATION_MARKUP["US"])

\* LOCATION_MARKUP.get(customer_location, LOCATION_MARKUP['default'])
LocationConfig(customer_location) ==
    Get(LOCATION_MARKUP, customer_location, LOCATION_MARKUP["default"])

MarkupUsd(location_config) ==
    IF location_config.currency = "USD" THEN location_config.amount
    ELSE convert_to_usd(location_config.amount, location_config.currency)

\* mutant: the minimum-margin floor left out
NoFloor(wholesale_price, customer_price_usd) == customer_price_usd

\* lines 493-494: the minimum-margin floor
EnsureMinimumMargin(wholesale_price, customer_price_usd) ==
    IF customer_price_usd - wholesale_price < MIN_PROFIT_MARGIN
    THEN wholesale_price + MIN_PROFIT_MARGIN
    ELSE customer_price_usd

\* mutant: the maximum-markup ceiling left out
NoCeiling(wholesale_price, customer_price_usd) == customer_price_usd

\* lines 497-499: the maximum-markup ceiling
EnsureMaximumMarkup(wholesale_price, customer_price_usd) ==
    LET max_allowed_price ==
            (wholesale_price * (100 + MAX_MARKUP_PERCENT)) \div 100
    IN  IF customer_price_usd > max_allowed_price THEN max_allowed_price
        ELSE customer_price_usd

\* mutant: the ceiling applied before the floor
FloorAfterCeiling(wholesale_price, markup_usd) ==
    EnsureMinimumMargin(wholesale_price,
        EnsureMaximumMarkup(wholesale_price, wholesale_price + markup_usd))

\* lines 490-499
CustomerPriceUsd(wholesale_price, markup_usd) ==
    EnsureMaximumMarkup(wholesale_price,
        EnsureMinimumMargin(wholesale_price, wholesale_price + markup_usd))

\* line 509 divides by the wholesale price: ZeroDivisionError when it is 0
MarkupRaises(cheapest_response) == cheapest_response.price[1] = 0

\* defined when the wholesale price is not 0
apply_geographic_markup(domain, cheapest_response, customer_location, registrar_responses) ==
    LET wholesale_price == cheapest_response.price[1]
        location_config == LocationConfig(customer_location)
        markup_usd == MarkupUsd(location_config)
        customer_price_usd == CustomerPriceUsd(wholesale_price, markup_usd)
        customer_price ==
            IF location_config.currency = "USD"
            THEN customer_price_usd * 100   \* same amount, in customer_price's unit
            ELSE convert_from_usd(customer_price_usd, location_config.currency)
        margin_usd == customer_price_usd - wholesale_price
        margin_percent == (margin_usd * 10000) \div wholesale_price
    IN  DomainPriceResult(domain, wholesale_price, cheapest_response.registrar,
            customer_price, location_config.currency, location_config.symbol,
            margin_usd, margin_percent, TRUE, cheapest_response.premium,
            IF registrar_responses = None \/ registrar_responses = <<>>
            THEN None ELSE registrar_responses)

-----------------------------------------------------------------------------
(* _create_unavailable_result and the error result of get_domain_pricing *)

\* mutant: the registrar records left out of the unavailable result
DropResponses(domain, registrar_responses) ==
    DomainPriceResult(domain, 0, "none", 0, "USD", "$", 0, 0, FALSE, FALSE, None)

\* mutant: the except branch's sentinel copied into the unavailable result
UnavailableNamedError(domain, registrar_responses) ==
    DomainPriceResult(domain, 0, "error", 0, "USD", "$", 0, 0, FALSE, FALSE,
                      registrar_responses)

create_unavailable_result(domain, registrar_responses) ==
    DomainPriceResult(domain, 0, "none", 0, "USD", "$", 0, 0, FALSE, FALSE,
                      registrar_responses)

\* lines 280-291
ErrorResult(domain) ==
    DomainPriceResult(domain, 0, "error", 0, "USD", "$", 0, 0, FALSE, FALSE, None)

-----------------------------------------------------------------------------
(* get_domain_pricing, lines 248-261 and 274-291: what the call computes    *)
(* from the list _query_all_registrars returned.  "kind" is the path taken: *)
(* "unavailable" returns at line 253, "priced" goes on to the cache write,  *)
(* "error" is the except branch.                                            *)

PriceResponses(domain, customer_location, include_registrar_details, registrar_responses) ==
    LET cheapest_response == find_cheapest_available(registrar_responses)
    IN  IF cheapest_response = None \/ ~cheapest_response[1].available
        THEN [kind |-> "unavailable",
              result |-> create_unavailable_result(domain, registrar_responses)]
        ELSE IF MarkupRaises(cheapest_response[1])
        THEN [kind |-> "error", result |-> ErrorResult(domain)]
        ELSE [kind |-> "priced",
              result |-> apply_geographic_markup(domain, cheapest_response[1],
                            customer_location,
                            IF include_registrar_details
                            THEN registrar_responses ELSE None)]

-----------------------------------------------------------------------------
(* The service: inputs *)

Domains == {"a.com", "b.com"}
CallLocations == {"US", "India"}

\* cache_key = f"domain_pricing:{domain}:{customer_location}"
CacheKey(domain, customer_location) == <<domain, customer_location>>
CacheKeys == Domains \X CallLocations

\* JSON payloads a registrar may answer with; a price is <<"num", n>>.
Payloads == {
    [status |-> "SUCCESS", available |-> TRUE, price |-> <<"num", 2000>>,
     premium |-> TRUE],
    [status |-> "SUCCESS", available |-> TRUE, price |-> <<"num", 0>>],
    [status |-> "SUCCESS", available |-> TRUE, price |-> <<"num", 10000>>],
    [available |-> FALSE],
    [note |-> "ok"] }

\* What one registrar request can end in: the per-registrar timeout, an
\* exception of the HTTP client, or a response with a status and a payload.
Replies ==
    {[kind |-> "timeout"], [kind |-> "exception"]}
    \cup {[kind |-> "http", status |-> 500]}
    \cup {[kind |-> "http", status |-> 200, data |-> d] : d \in Payloads}

-----------------------------------------------------------------------------
(* _parse_registrar_response and _query_single_registrar *)

\* float(data.get('price', config['avg_price']))
FloatPrice(data, config) ==
    IF "price" \in DOMAIN data THEN data["price"][2] ELSE config.avg_price

\* lines 403-454, for the registrars of REGISTRAR_APIS above
parse_registrar_response(registrar_name, domain, data, config) ==
    IF registrar_name = "porkbun"
    THEN RegistrarResponse(registrar_name, domain,
             Get(data, "status", "") = "SUCCESS" /\ Get(data, "available", FALSE),
             Some(FloatPrice(data, config)), Get(data, "premium", FALSE), None)
    ELSE RegistrarResponse(registrar_name, domain,
             Get(data, "available", TRUE), Some(config.avg_price), FALSE, None)

\* the record of the three failure branches, lines 354, 374 and 383
FailureRecord(registrar_name, domain, error) ==
    RegistrarResponse(registrar_name, domain, FALSE, None, FALSE, Some(error))

\* lines 338-389: every failure becomes a record with an error
query_single_registrar(registrar_name, domain, config, reply) ==
    IF reply.kind = "timeout"
    THEN FailureRecord(registrar_name, domain, "Timeout")
    ELSE IF reply.kind = "exception"
    THEN FailureRecord(registrar_name, domain, "Cannot connect to host")
    ELSE IF reply.status # 200
    THEN FailureRecord(registrar_name, domain, "HTTP 500")
    ELSE parse_registrar_response(registrar_name, domain, reply.data, config)

-----------------------------------------------------------------------------
(* The cache: app/core/cache.py, and what get_domain_pricing stores in it *)

QuoteFields == {"domain", "wholesale_price", "wholesale_registrar",
                "customer_price", "customer_currency", "customer_symbol",
                "margin_amount", "margin_percent", "available", "premium",
                "registrar_responses", "checked_at"}

\* json.loads(json.dumps(asdict(result), default=str)): the fields keep their
\* values, the registrar records become dicts of the same keys, checked_at
\* becomes its string
ToCached(result) == [result EXCEPT !.checked_at = "str"]

\* DomainPriceResult(**cached_result): __post_init__ leaves the given
\* checked_at and registrar_responses as they are
FromCached(cached_result) == cached_result

\* DomainPriceResult(**cached_result) raises TypeError unless the dict's
\* keys are the dataclass's fields
FromCachedRaises(cached_result) == DOMAIN cached_result # QuoteFields

\* an entry of another schema under a domain_pricing key, as a deployment
\* with other DomainPriceResult fields leaves behind in the shared store
ForeignEntry(domain) ==
    [value |-> [domain |-> domain, price |-> 9990, available |-> TRUE],
     ttl |-> CACHE_TTL.pricing]

\* mutant: a get that answers from the store although the server is down
CacheGetNoFailure(c, key) ==
    IF c[key] = None THEN None ELSE Some(c[key][1].value)

\* EnterpriseCache.get: the stored value, or None; None as well when the
\* client raises (lines 29-31)
CacheGet(c, key) ==
    IF ~redis_up \/ c[key] = None THEN None ELSE Some(c[key][1].value)

\* EnterpriseCache.set: setex(key, ttl, json.dumps(value)); when the client
\* raises nothing is stored and set returns False (lines 38-40)
CacheSet(c, key, value, ttl) ==
    IF redis_up THEN [c EXCEPT ![key] = Some([value |-> value, ttl |-> ttl])]
    ELSE c

NoCache == [k \in CacheKeys |-> None]

-----------------------------------------------------------------------------
(* Monitoring: app/core/monitoring.py *)

\* record_request (the running average is wall-clock and left out)
record_request(m, success, from_cache) ==
    [m EXCEPT !.requests_total = @ + 1,
              !.requests_successful = IF success THEN @ + 1 ELSE @,
              !.requests_failed = IF success THEN @ ELSE @ + 1,
              !.cache_hits = IF from_cache THEN @ + 1 ELSE @,
              !.cache_misses = IF from_cache THEN @ ELSE @ + 1]

\* record_error
record_error(m, error) == [m EXCEPT !.last_error = Some(error)]

-----------------------------------------------------------------------------
(* get_domain_pricing: one call is a task.                                  *)
(*   pc      "querying" (suspended in the fan-out), "returned", "raised"    *)
(*   path    the return statement taken: "hit" (242), "unavailable" (253),  *)
(*           "priced" (272), "error" (280); "raised" for line 242's         *)
(*           TypeError; "" while querying                                   *)
(*   queried whether _query_all_registrars was entered                      *)
(*   answers registrar -> None while its query is outstanding, else what    *)
(*           _query_single_registrar returned; the fan-out's tasks are gone *)
(*           once the call has returned                                     *)
(*   completed the registrars whose queries have ended, in the order in     *)
(*           which they ended                                               *)

NoAnswers == [r \in RegistrarIds |-> None]

Task(domain, customer_location, include_registrar_details, pc, path, queried, result) ==
    [domain |-> domain, customer_location |-> customer_location,
     include_registrar_details |-> include_registrar_details,
     pc |-> pc, path |-> path, queried |-> queried, answers |-> NoAnswers,
     completed |-> <<>>, result |-> result]

\* mutant: a cached quote is returned whether or not details are asked for
HitIgnoringDetails(cached_result, include_registrar_details) ==
    cached_result # None

\* line 240: if cached_result and not include_registrar_details
CacheHit(cached_result, include_registrar_details) ==
    cached_result # None /\ ~include_registrar_details

\* lines 234-246: the call up to its first suspension
StartedTask(c, domain, customer_location, include_registrar_details) ==
    LET cached_result == CacheGet(c, CacheKey(domain, customer_location))
    IN  IF CacheHit(cached_result, include_registrar_details)
        THEN IF FromCachedRaises(cached_result[1])
             THEN Task(domain, customer_location, include_registrar_details,
                       "raised", "raised", FALSE, None)
             ELSE Task(domain, customer_location, include_registrar_details,
                       "returned", "hit", FALSE,
                       Some(FromCached(cached_result[1])))
        ELSE Task(domain, customer_location, include_registrar_details,
                  "querying", "", TRUE, None)

\* line 241 runs for every hit, before line 242 can raise
RECURSIVE StartedMetrics(_, _)
StartedMetrics(m, started) ==
    IF started = <<>> THEN m
    ELSE StartedMetrics(
             IF Head(started).queried THEN m
             ELSE record_request(m, TRUE, TRUE),
             Tail(started))

Finished(t) == t.pc \in {"returned", "raised"}

RequestOver ==
    \/ request.kind = "none"
    \/ request.kind = "single" /\ \A i \in DOMAIN tasks : Finished(tasks[i])
    \/ request.kind = "bulk" /\ request.done

NewRequest(kind, domains, customer_location) ==
    [kind |-> kind, domains |-> domains,
     customer_location |-> customer_location,
     done |-> FALSE, valid_results |-> <<>>]

\* a caller awaits get_domain_pricing(domain, customer_location, details)
GetDomainPricing(domain, customer_location, include_registrar_details) ==
    /\ RequestOver
    /\ ncalls < MaxCalls
    /\ LET started == <<StartedTask(cache, domain, customer_location,
                                    include_registrar_details)>>
       IN  /\ tasks' = started
           /\ metrics' = StartedMetrics(metrics, started)
           /\ session' = (session \/ started[1].queried)
    /\ request' = NewRequest("single", <<domain>>, customer_location)
    /\ ncalls' = ncalls + 1
    /\ UNCHANGED cache
    /\ UNCHANGED not_svc_vars

\* bulk_check_domains, lines 595-600: one get_domain_pricing task per domain;
\* gather starts them in order and each runs to its first suspension
BulkCheckDomains(domains, customer_location) ==
    /\ RequestOver
    /\ ncalls + Len(domains) <= MaxCalls
    /\ LET started == [i \in 1..Len(domains) |->
                          StartedTask(cache, domains[i], customer_location, FALSE)]
       IN  /\ tasks' = started
           /\ metrics' = StartedMetrics(metrics, started)
           /\ session' = (session \/ \E i \in 1..Len(domains) : started[i].queried)
    /\ request' = NewRequest("bulk", domains, customer_location)
    /\ ncalls' = ncalls + Len(domains)
    /\ UNCHANGED cache
    /\ UNCHANGED not_svc_vars

\* one registrar query of task i ends: _query_single_registrar returns
RegistrarAnswer(i, r, reply) ==
    /\ i \in DOMAIN tasks
    /\ tasks[i].pc = "querying"
    /\ tasks[i].answers[r] = None
    /\ tasks' = [tasks EXCEPT ![i].answers[r] =
                    Some(query_single_registrar(REGISTRAR_APIS[r].name,
                             tasks[i].domain, REGISTRAR_APIS[r], reply)),
                               ![i].completed = Append(@, r)]
    /\ UNCHANGED <<cache, session, metrics, request, ncalls>>
    /\ UNCHANGED not_svc_vars

\* gather(*tasks, return_exceptions=True): the results in the order of the
\* tasks, and lines 314-321 keep those that are RegistrarResponse records
GatheredResponses(answers) == [r \in RegistrarIds |-> answers[r][1]]

\* lines 248-291, once _query_all_registrars has returned responses
Resume(i, responses) ==
    LET t == tasks[i]
        out == PriceResponses(t.domain, t.customer_location,
                              t.include_registrar_details, responses)
        key == CacheKey(t.domain, t.customer_location)
        cache_ttl == IF out.result.available THEN CACHE_TTL.available
                     ELSE CACHE_TTL.taken
    IN  /\ tasks' = [tasks EXCEPT ![i].pc = "returned",
                                  ![i].path = out.kind,
                                  ![i].answers = NoAnswers,
                                  ![i].completed = <<>>,
                                  ![i].result = Some(out.result)]
        /\ cache' = IF out.kind = "priced"
                    THEN CacheSet(cache, key, ToCached(out.result), cache_ttl)
                    ELSE cache
        /\ metrics' = IF out.kind = "priced"
                      THEN record_request(metrics, TRUE, FALSE)
                      ELSE IF out.kind = "error"
                      THEN record_error(metrics, "float division by zero")
                      ELSE metrics
        /\ UNCHANGED <<session, request, ncalls>>
        /\ UNCHANGED not_svc_vars

\* the records of the registrars of task t whose queries have ended, in the
\* order of REGISTRAR_APIS
AnsweredList(t) ==
    LET ids == SelectSeq([r \in RegistrarIds |-> r],
                         LAMBDA r : t.answers[r] # None)
    IN  [k \in DOMAIN ids |-> t.answers[ids[k]][1]]

\* mutant: the fan-out returns as soon as one query has ended, with the
\* records received so far
GatheredEarly(i) ==
    /\ i \in DOMAIN tasks
    /\ tasks[i].pc = "querying"
    /\ \E r \in RegistrarIds : tasks[i].answers[r] # None
    /\ Resume(i, AnsweredList(tasks[i]))

\* every registrar query of task i has ended: the fan-out returns the
\* records and the call runs to its return
Gathered(i) ==
    /\ i \in DOMAIN tasks
    /\ tasks[i].pc = "querying"
    /\ \A r \in RegistrarIds : tasks[i].answers[r] # None
    /\ Resume(i, GatheredResponses(tasks[i].answers))

\* lines 323-325: wait_for's deadline fires with a query still outstanding
\* (the event loop serves the per-registrar timers late); the fan-out is
\* cancelled and returns the empty list
FanoutTimeout(i) ==
    /\ i \in DOMAIN tasks
    /\ tasks[i].pc = "querying"
    /\ \E r \in RegistrarIds : tasks[i].answers[r] = None
    /\ Resume(i, <<>>)

\* mutant: gather without return_exceptions, the first exception ends the batch
AllOrNothing(ts) ==
    IF \E i \in DOMAIN ts : ts[i].pc = "raised" THEN <<>>
    ELSE [i \in DOMAIN ts |-> ts[i].result[1]]

IsReturned(t) == t.pc = "returned"

\* lines 602-608: the results that are DomainPriceResult, in task order
ValidResults(ts) ==
    LET kept == SelectSeq(ts, IsReturned)
    IN  [i \in DOMAIN kept |-> kept[i].result[1]]

\* bulk_check_domains returns once every task has returned or raised
BulkReturn ==
    /\ request.kind = "bulk"
    /\ ~request.done
    /\ \A i \in DOMAIN tasks : Finished(tasks[i])
    /\ request' = [request EXCEPT !.done = TRUE,
                                  !.valid_results = ValidResults(tasks)]
    /\ UNCHANGED <<cache, session, metrics, tasks, ncalls>>
    /\ UNCHANGED not_svc_vars

\* the Redis server stops answering: every call of the client raises
RedisDown ==
    /\ redis_up
    /\ redis_up' = FALSE
    /\ UNCHANGED <<svc_vars, fn_vars, rl_vars, shop_vars>>

\* the Redis server answers again, with the entries it held
RedisUp ==
    /\ ~redis_up
    /\ redis_up' = TRUE
    /\ UNCHANGED <<svc_vars, fn_vars, rl_vars, shop_vars>>

\* the store drops an entry whose TTL has run out
CacheExpire(key) ==
    /\ cache[key] # None
    /\ cache' = [cache EXCEPT ![key] = None]
    /\ UNCHANGED <<session, metrics, tasks, request, ncalls>>
    /\ UNCHANGED not_svc_vars

-----------------------------------------------------------------------------
(* The service specification *)

InitSvcIdle ==
    /\ session = FALSE
    /\ metrics = [requests_total |-> 0, requests_successful |-> 0,
                  requests_failed |-> 0, cache_hits |-> 0, cache_misses |-> 0,
                  last_error |-> None]
    /\ tasks = <<>>
    /\ request = NewRequest("none", <<>>, "default")
    /\ ncalls = 0
    /\ redis_up = TRUE

\* the rate limiter before its first call, with the defaults of is_allowed
InitRlIdle ==
    /\ rl_now = 0
    /\ rl_zset = <<>>
    /\ rl_params = [max_requests |-> 100, window_seconds |-> 60]
    /\ rl_calls = 0
    /\ rl_result = None
    /\ rl_granted = <<>>

\* the purchase service after construction (line 190), no call made
InitPoIdle ==
    /\ orders = <<>>
    /\ creates = <<>>
    /\ payments = <<>>
    /\ registrations = <<>>
    /\ cancelled = {}

InitCartIdle ==
    /\ cart_items = <<>>
    /\ cart_orders = {}
    /\ order_items = {}
    /\ checkouts = <<>>

InitPriceIdle ==
    /\ price_pc = "idle"
    /\ price_input = <<>>
    /\ price_output = None

InitVendorIdle ==
    /\ vendor_pc = "idle"
    /\ vendor = <<>>
    /\ vendor_risk = None

InitShopIdle ==
    /\ InitPoIdle
    /\ InitCartIdle
    /\ InitPriceIdle
    /\ InitVendorIdle

InitFnIdle ==
    /\ fn_pc = "idle"
    /\ fn_responses = <<>>
    /\ fn_location = "default"
    /\ fn_cheapest = None
    /\ fn_quote = None

Init ==
    /\ cache = NoCache
    /\ InitSvcIdle
    /\ InitShopIdle
    /\ InitFnIdle
    /\ InitRlIdle

BatchesOf(n) == UNION { [1..m -> Domains] : m \in 0..n }

\* Callers that await get_domain_pricing one call at a time
Next ==
    \/ \E d \in Domains, loc \in CallLocations, details \in BOOLEAN :
           GetDomainPricing(d, loc, details)
    \/ \E r \in RegistrarIds, reply \in Replies : RegistrarAnswer(1, r, reply)
    \/ Gathered(1)
    \/ FanoutTimeout(1)
    \/ \E k \in CacheKeys : CacheExpire(k)

Spec == Init /\ [][Next]_vars

\* Callers of bulk_check_domains.  The batch semantics do not depend on which
\* failure a registrar reports, so the replies are one failure, one available
\* and one unavailable answer.
BulkReplies ==
    { [kind |-> "timeout"],
      [kind |-> "http", status |-> 200,
       data |-> [status |-> "SUCCESS", available |-> TRUE,
                 price |-> <<"num", 2000>>, premium |-> TRUE]],
      [kind |-> "http", status |-> 200, data |-> [available |-> FALSE]] }

BulkLocations == {"India"}

\* The store outlives the process: it starts empty, or holding one entry of
\* another schema.
InitBulk ==
    /\ cache \in {NoCache} \cup
                 { [NoCache EXCEPT ![k] = Some(ForeignEntry(k[1]))] :
                     k \in Domains \X BulkLocations }
    /\ InitSvcIdle
    /\ InitShopIdle
    /\ InitFnIdle
    /\ InitRlIdle

NextBulk ==
    \/ \E ds \in BatchesOf(MaxBatch), loc \in BulkLocations :
           BulkCheckDomains(ds, loc)
    \/ \E i \in 1..MaxBatch, r \in RegistrarIds, reply \in BulkReplies :
           RegistrarAnswer(i, r, reply)
    \/ \E i \in 1..MaxBatch : Gathered(i)
    \/ \E i \in 1..MaxBatch : FanoutTimeout(i)
    \/ BulkReturn
    \/ \E k \in CacheKeys : CacheExpire(k)

SpecBulk == InitBulk /\ [][NextBulk]_vars

\* Callers whose registrars quote the same price.  porkbun answers with
\* namesilo's configured avg_price or with a higher price; namesilo's
\* record always carries its avg_price.
TieReplies ==
    { [kind |-> "timeout"],
      [kind |-> "http", status |-> 200,
       data |-> [status |-> "SUCCESS", available |-> TRUE,
                 price |-> <<"num", REGISTRAR_APIS[2].avg_price>>]],
      [kind |-> "http", status |-> 200,
       data |-> [status |-> "SUCCESS", available |-> TRUE,
                 price |-> <<"num", 10000>>]] }

NextTie ==
    \/ \E d \in Domains, loc \in CallLocations, details \in BOOLEAN :
           GetDomainPricing(d, loc, details)
    \/ \E r \in RegistrarIds, reply \in TieReplies : RegistrarAnswer(1, r, reply)
    \/ Gathered(1)
    \/ FanoutTimeout(1)
    \/ \E k \in CacheKeys : CacheExpire(k)

SpecTie == Init /\ [][NextTie]_vars

\* Callers of a service whose Redis server may stop answering and come back
\* between any two steps.
NextCacheFail ==
    \/ \E d \in Domains, loc \in CallLocations, details \in BOOLEAN :
           GetDomainPricing(d, loc, details)
    \/ \E r \in RegistrarIds, reply \in BulkReplies : RegistrarAnswer(1, r, reply)
    \/ Gathered(1)
    \/ FanoutTimeout(1)
    \/ \E k \in CacheKeys : CacheExpire(k)
    \/ RedisDown
    \/ RedisUp

SpecCacheFail == Init /\ [][NextCacheFail]_vars

-----------------------------------------------------------------------------
(* Harness for the pure functions: Init draws a list of registrar records   *)
(* and a location, the actions apply selection and markup to them.          *)

FnDomain == "example.com"
FnNames == <<"A", "B", "C", "D", "E">>
FnPrices == {0, 1000, 2990, 3000, 8000, 10000}
FnLocations == DOMAIN LOCATION_MARKUP \cup {"Mars"}

FnRecordsAt(i) ==
    { RegistrarResponse(FnNames[i], FnDomain, a, p, FALSE, None) :
        a \in BOOLEAN, p \in {None} \cup {Some(x) : x \in FnPrices} }

RECURSIVE FnListsOfLen(_)
FnListsOfLen(n) ==
    IF n = 0 THEN { <<>> }
    ELSE { Append(rs, r) : rs \in FnListsOfLen(n - 1), r \in FnRecordsAt(n) }

FnLists(max_len) == UNION { FnListsOfLen(n) : n \in 0..max_len }

InitFn ==
    /\ cache = NoCache
    /\ InitSvcIdle
    /\ InitShopIdle
    /\ fn_pc = "input"
    /\ fn_responses \in FnLists(MaxLen)
    /\ fn_location \in FnLocations
    /\ fn_cheapest = None
    /\ fn_quote = None
    /\ InitRlIdle

\* line 249
FnFind ==
    /\ fn_pc = "input"
    /\ fn_cheapest' = find_cheapest_available(fn_responses)
    /\ fn_pc' = "selected"
    /\ UNCHANGED <<fn_responses, fn_location, fn_quote>>
    /\ UNCHANGED not_fn_vars

\* lines 251-261 and the except branch
FnPrice ==
    /\ fn_pc = "selected"
    /\ \E include_registrar_details \in BOOLEAN :
         LET out == PriceResponses(FnDomain, fn_location,
                        include_registrar_details, fn_responses)
         IN  /\ fn_quote' = Some(out.result)
             /\ fn_pc' = out.kind
    /\ UNCHANGED <<fn_responses, fn_location, fn_cheapest>>
    /\ UNCHANGED not_fn_vars

NextFn == FnFind \/ FnPrice

SpecFn == InitFn /\ [][NextFn]_vars

-----------------------------------------------------------------------------
(* Claims about selection and markup, checked under SpecFn *)

FnPricedRecords ==
    { i \in 1..Len(fn_responses) : IsAvailableWithPrice(fn_responses[i]) }

\* C1: _find_cheapest_available returns a record of the list that is
\* available and has a price no greater than the price of any available
\* priced record of the list, and returns None exactly when the list holds no
\* available record with a price.
C1_CheapestAvailable ==
    fn_pc # "input" =>
        /\ (fn_cheapest = None) <=> (FnPricedRecords = {})
        /\ fn_cheapest # None =>
             /\ \E i \in FnPricedRecords : fn_responses[i] = fn_cheapest[1]
             /\ \A i \in FnPricedRecords :
                    fn_cheapest[1].price[1] <= fn_responses[i].price[1]

\* the cheapest record is not the first available one of the list
C1_Witness ==
    /\ fn_pc = "selected"
    /\ fn_cheapest # None
    /\ \E i \in FnPricedRecords :
         /\ fn_responses[i].price[1] > fn_cheapest[1].price[1]
         /\ \A j \in FnPricedRecords : i <= j

\* C2: for every quote _apply_geographic_markup computes, the customer price
\* in USD (wholesale_price + margin_amount) is at most
\* wholesale_price * (1 + MAX_MARKUP_PERCENT/100).
C2_MarkupCeiling ==
    fn_pc = "priced" =>
        (fn_quote[1].wholesale_price + fn_quote[1].margin_amount) * 100
            <= fn_quote[1].wholesale_price * (100 + MAX_MARKUP_PERCENT)

\* the ceiling was binding: markup and floor both asked for more
C2_Witness ==
    /\ fn_pc = "priced"
    /\ fn_quote[1].wholesale_price > 0
    /\ fn_quote[1].margin_amount * 100
           = fn_quote[1].wholesale_price * MAX_MARKUP_PERCENT
    /\ fn_quote[1].margin_amount < MarkupUsd(LocationConfig(fn_location))

\* C3: for every available quote, margin_amount is at least
\* MIN_PROFIT_MARGIN, or the customer price in USD equals the ceiling
\* wholesale_price * (1 + MAX_MARKUP_PERCENT/100).
C3_MarginFloorOrCeiling ==
    (fn_pc = "priced" /\ fn_quote[1].available) =>
        \/ fn_quote[1].margin_amount >= MIN_PROFIT_MARGIN
        \/ (fn_quote[1].wholesale_price + fn_quote[1].margin_amount) * 100
               = fn_quote[1].wholesale_price * (100 + MAX_MARKUP_PERCENT)

\* the floor raised a markup that was below the minimum margin
C3_Witness ==
    /\ fn_pc = "priced"
    /\ fn_quote[1].available
    /\ MarkupUsd(LocationConfig(fn_location)) < MIN_PROFIT_MARGIN
    /\ fn_quote[1].margin_amount = MIN_PROFIT_MARGIN

\* customer_price and wholesale_price of a quote in one unit
\* (hundred-thousandths), as the two fields are compared on their face
FaceMargin(q) == q.customer_price - q.wholesale_price * 100

\* C4 as stated: every available quote satisfies, on its own fields,
\* customer_price - wholesale_price >= MIN_PROFIT_MARGIN and
\* customer_price <= wholesale_price * (1 + MAX_MARKUP_PERCENT/100),
\* for every location and every wholesale price.
C4_AsStated ==
    (fn_pc = "priced" /\ fn_quote[1].available) =>
        /\ FaceMargin(fn_quote[1]) >= MIN_PROFIT_MARGIN * 100
        /\ fn_quote[1].customer_price
               <= fn_quote[1].wholesale_price * (100 + MAX_MARKUP_PERCENT)

\* C4 amended: an available quote whose customer currency is USD satisfies
\* customer_price <= wholesale_price * (1 + MAX_MARKUP_PERCENT/100) on its
\* own fields, and customer_price - wholesale_price >= MIN_PROFIT_MARGIN
\* when the ceiling leaves room for it (wholesale_price * MAX_MARKUP_PERCENT
\* / 100 >= MIN_PROFIT_MARGIN).
C4_UsdFields ==
    (fn_pc = "priced" /\ fn_quote[1].available
        /\ fn_quote[1].customer_currency = "USD") =>
        /\ fn_quote[1].customer_price
               <= fn_quote[1].wholesale_price * (100 + MAX_MARKUP_PERCENT)
        /\ fn_quote[1].wholesale_price * MAX_MARKUP_PERCENT
               >= MIN_PROFIT_MARGIN * 100
           => FaceMargin(fn_quote[1]) >= MIN_PROFIT_MARGIN * 100

\* a USD quote at the wholesale price where floor and ceiling meet
C4_Witness ==
    /\ fn_pc = "priced"
    /\ fn_quote[1].available
    /\ fn_quote[1].customer_currency = "USD"
    /\ fn_quote[1].wholesale_price * MAX_MARKUP_PERCENT = MIN_PROFIT_MARGIN * 100
    /\ FaceMargin(fn_quote[1]) = MIN_PROFIT_MARGIN * 100

-----------------------------------------------------------------------------
(* Claims about get_domain_pricing, checked under Spec *)

Returned(i) == i \in DOMAIN tasks /\ tasks[i].pc = "returned"

PricesZero(q) ==
    /\ q.wholesale_price = 0
    /\ q.customer_price = 0
    /\ q.margin_amount = 0
    /\ q.margin_percent = 0

\* C5 as stated: every result returned with available = false, on any path,
\* has all price fields zero and wholesale_registrar = "none".
C5_AsStated ==
    \A i \in DOMAIN tasks :
        (Returned(i) /\ ~tasks[i].result[1].available) =>
            /\ PricesZero(tasks[i].result[1])
            /\ tasks[i].result[1].wholesale_registrar = "none"

\* C5 amended: every result returned with available = false has all price
\* fields zero; wholesale_registrar is "none" when no registrar reported the
\* domain available or the fan-out timed out, and "error" when an exception
\* during the computation was caught.
C5_UnavailableZeroed ==
    \A i \in DOMAIN tasks :
        (Returned(i) /\ ~tasks[i].result[1].available) =>
            /\ PricesZero(tasks[i].result[1])
            /\ tasks[i].path \in {"unavailable", "error"}
            /\ tasks[i].result[1].wholesale_registrar =
                   (IF tasks[i].path = "error" THEN "error" ELSE "none")

\* an unavailable result has been returned from the except branch
C5_Witness ==
    /\ Returned(1)
    /\ tasks[1].path = "error"
    /\ ~tasks[1].result[1].available

\* the step in which call i leaves the fan-out and returns
Resumes(i) ==
    /\ i \in DOMAIN tasks
    /\ tasks[i].pc = "querying"
    /\ i \in DOMAIN tasks'
    /\ tasks'[i].pc # "querying"

\* the records that had come back when the call left the fan-out
Answered(t) ==
    { t.answers[r][1] : r \in {x \in RegistrarIds : t.answers[x] # None} }

\* registrar r's query raised, answered with an error status, timed out on
\* its own or was still outstanding at the fan-out deadline
QueryFailed(t, r) ==
    \/ t.answers[r] = None
    \/ t.answers[r][1].error # None

OffersOf(t) == { a \in Answered(t) : IsAvailableWithPrice(a) }

\* C6 as stated: if one registrar query raises or times out while another
\* registrar returns an available record with a price, get_domain_pricing
\* does not raise and returns a quote built from the cheapest of the records
\* of the registrars that did answer.
C6_AsStated ==
    [][ (Resumes(1)
          /\ (\E r \in RegistrarIds : QueryFailed(tasks[1], r))
          /\ OffersOf(tasks[1]) # {})
        => /\ tasks'[1].pc = "returned"
           /\ tasks'[1].result[1].available
           /\ \E a \in OffersOf(tasks[1]) :
                /\ \A b \in OffersOf(tasks[1]) : a.price[1] <= b.price[1]
                /\ tasks'[1].result[1].wholesale_price = a.price[1]
                /\ tasks'[1].result[1].wholesale_registrar = a.registrar ]_vars

\* the record lists of a fan-out in which every registrar answered with
\* status 200 and none reported the domain available ("domain taken")
TakenLists(domain) ==
    { rs \in [RegistrarIds ->
                { query_single_registrar(REGISTRAR_APIS[r].name, domain,
                      REGISTRAR_APIS[r], reply) :
                    r \in RegistrarIds,
                    reply \in {x \in Replies : x.kind = "http" /\ x.status = 200} }] :
        \A r \in RegistrarIds :
            /\ rs[r].registrar = REGISTRAR_APIS[r].name
            /\ ~rs[r].available }

Starts == ncalls' = ncalls + 1 /\ Len(tasks') = 1

\* C9: when the cache holds a quote under the call's (domain, location) key
\* and include_registrar_details is false, the call returns that quote
\* without entering the registrar fan-out; when include_registrar_details is
\* true the call enters the fan-out, with every registrar query outstanding,
\* whether or not a quote is cached.
C9_CacheHitSkipsFanout ==
    [][ Starts =>
          LET t == tasks'[1]
              entry == cache[CacheKey(t.domain, t.customer_location)]
          IN  /\ (entry # None /\ ~FromCachedRaises(entry[1].value)
                    /\ ~t.include_registrar_details)
                 => /\ t.pc = "returned"
                    /\ t.result = Some(entry[1].value)
                    /\ ~t.queried
                    /\ session' = session
              /\ t.include_registrar_details
                 => /\ t.pc = "querying"
                    /\ t.queried
                    /\ t.answers = NoAnswers ]_vars

\* a call has returned a cached quote
C9_Witness ==
    /\ Returned(1)
    /\ tasks[1].path = "hit"
    /\ ~tasks[1].queried

\* the other half of C9's case: a call with details entered the fan-out
\* while its key held a quote
C9_WitnessDetails ==
    /\ 1 \in DOMAIN tasks
    /\ tasks[1].include_registrar_details
    /\ tasks[1].pc = "querying"
    /\ cache[CacheKey(tasks[1].domain, tasks[1].customer_location)] # None

\* C10 as stated: no cache entry contains per-registrar records, and every
\* call with include_registrar_details = false returns a quote whose
\* registrar_responses list is empty.
C10_AsStated ==
    /\ \A k \in CacheKeys :
           (cache[k] # None /\ ~FromCachedRaises(cache[k][1].value))
               => cache[k][1].value.registrar_responses = <<>>
    /\ \A i \in DOMAIN tasks :
           (Returned(i) /\ ~tasks[i].include_registrar_details)
               => tasks[i].result[1].registrar_responses = <<>>

-----------------------------------------------------------------------------
(* Claims about bulk_check_domains, checked under SpecBulk *)

\* C8: bulk_check_domains returns a list no longer than its input; a domain
\* whose pricing call raised is omitted, and the result of every other call of
\* the batch is present.
C8_BatchBestEffort ==
    (request.kind = "bulk" /\ request.done) =>
        /\ Len(request.valid_results) <= Len(request.domains)
        /\ Len(request.valid_results)
               = Cardinality({i \in DOMAIN tasks : tasks[i].pc = "returned"})
        /\ \A i \in DOMAIN tasks :
               /\ tasks[i].pc = "raised" =>
                    \A j \in DOMAIN request.valid_results :
                        request.valid_results[j].domain # tasks[i].domain
               /\ tasks[i].pc = "returned" =>
                    \E j \in DOMAIN request.valid_results :
                        request.valid_results[j] = tasks[i].result[1]

\* a batch has returned in which one call raised and another returned
C8_Witness ==
    /\ request.kind = "bulk"
    /\ request.done
    /\ \E i, j \in DOMAIN tasks :
           /\ tasks[i].pc = "raised"
           /\ tasks[j].pc = "returned"
           /\ tasks[j].queried

-----------------------------------------------------------------------------
(* The rate limiter: app/core/rate_limiter.py, for one identifier.  The     *)
(* sorted set is a function from member to score; a member is               *)
(* str(current_time), held as the integer it spells.                        *)

\* ZREMRANGEBYSCORE key lo hi
ZRemRangeByScore(z, lo, hi) ==
    [m \in {x \in DOMAIN z : ~(lo <= z[x] /\ z[x] <= hi)} |-> z[m]]

\* ZCARD key
ZCard(z) == Cardinality(DOMAIN z)

\* ZADD key {member: score}: a member already in the set keeps its place and
\* takes the new score
ZAdd(z, member, score) ==
    [m \in DOMAIN z \cup {member} |-> IF m = member THEN score ELSE z[m]]

\* lines 18-44 with Redis answering: the value returned and the set left
is_allowed(z, current_time, max_requests, window_seconds) ==
    LET window_start == current_time - window_seconds
        trimmed == ZRemRangeByScore(z, 0, window_start)
        current_requests == ZCard(trimmed)
    IN  IF current_requests >= max_requests
        THEN [allowed |-> FALSE, zset |-> trimmed]
        ELSE [allowed |-> TRUE, zset |-> ZAdd(trimmed, current_time, current_time)]

\* a caller calls rate_limiter.is_allowed(identifier, max_requests,
\* window_seconds); with the Redis server down the except branch of lines
\* 42-44 allows the request
IsAllowed ==
    /\ rl_calls < MaxRlCalls
    /\ rl_calls' = rl_calls + 1
    /\ IF redis_up
       THEN LET out == is_allowed(rl_zset, rl_now, rl_params.max_requests,
                                  rl_params.window_seconds)
            IN  /\ rl_zset' = out.zset
                /\ rl_result' = Some(out.allowed)
                /\ rl_granted' = IF out.allowed
                                 THEN Append(rl_granted,
                                          [at |-> rl_now, limited |-> TRUE])
                                 ELSE rl_granted
       ELSE /\ rl_zset' = rl_zset
            /\ rl_result' = Some(TRUE)
            /\ rl_granted' = Append(rl_granted,
                                    [at |-> rl_now, limited |-> FALSE])
    /\ UNCHANGED <<rl_now, rl_params>>
    /\ UNCHANGED <<svc_vars, fn_vars, redis_up, shop_vars>>

\* the score of the newest member: the time of the call that last set the
\* key's expiry (line 39)
NewestScore(z) == CHOOSE t \in {z[m] : m \in DOMAIN z} : \A m \in DOMAIN z : z[m] <= t

\* a second passes; Redis drops the key window_seconds after the call that
\* last set its expiry
Tick ==
    /\ rl_now < MaxRlTime
    /\ rl_now' = rl_now + 1
    /\ rl_zset' = IF DOMAIN rl_zset # {}
                     /\ rl_now + 1 >= NewestScore(rl_zset) + rl_params.window_seconds
                  THEN <<>>
                  ELSE rl_zset
    /\ UNCHANGED <<rl_params, rl_calls, rl_result, rl_granted>>
    /\ UNCHANGED <<svc_vars, fn_vars, redis_up, shop_vars>>

InitRl ==
    /\ cache = NoCache
    /\ InitSvcIdle
    /\ InitShopIdle
    /\ InitFnIdle
    /\ rl_now = 0
    /\ rl_zset = <<>>
    /\ rl_params \in [max_requests : 1..MaxRlRequests,
                       window_seconds : 1..MaxRlWindow]
    /\ rl_calls = 0
    /\ rl_result = None
    /\ rl_granted = <<>>

NextRl == IsAllowed \/ Tick \/ RedisDown \/ RedisUp

SpecRl == InitRl /\ [][NextRl]_vars

\* C20 as stated: with the Redis backend reachable at every call, the number
\* of is_allowed calls that returned True within any window of
\* window_seconds seconds is at most max_requests, calls within the same
\* second included.
C20_AsStated ==
    (\A k \in DOMAIN rl_granted : rl_granted[k].limited) =>
        \A start \in 0..MaxRlTime :
            Cardinality({ k \in DOMAIN rl_granted :
                            /\ start <= rl_granted[k].at
                            /\ rl_granted[k].at < start + rl_params.window_seconds })
                <= rl_params.max_requests

-----------------------------------------------------------------------------
(* Claims about the cache write and the fan-out deadline, checked under Spec *)

\* C11 as stated: every quote that get_domain_pricing computes without a
\* cache hit is written to the cache under its (domain, location) key, with
\* CACHE_TTL.available when it is available and with CACHE_TTL.taken when it
\* is not.
C11_AsStated ==
    [][ Resumes(1) =>
          LET t == tasks'[1]
              key == CacheKey(t.domain, t.customer_location)
          IN  cache'[key] =
                  Some([value |-> ToCached(t.result[1]),
                        ttl |-> IF t.result[1].available
                                THEN CACHE_TTL.available
                                ELSE CACHE_TTL.taken]) ]_vars

\* C12 as stated: when the fan-out deadline fires, the records of the
\* registrars that had already answered are kept and used for the selection
\* of the cheapest price; only the outstanding registrars count as failed.
C12_AsStated ==
    [][ (Resumes(1) /\ \E r \in RegistrarIds : tasks[1].answers[r] = None) =>
          LET t == tasks[1]
              kept == PriceResponses(t.domain, t.customer_location,
                          t.include_registrar_details, AnsweredList(t)).result
              got == tasks'[1].result[1]
          IN  /\ got.available = kept.available
              /\ got.wholesale_price = kept.wholesale_price
              /\ got.wholesale_registrar = kept.wholesale_registrar ]_vars

-----------------------------------------------------------------------------
(* Claims about the order of the registrar records, checked under SpecTie *)

\* the registrars whose records are available at the lowest price
Cheapest(t) ==
    { r \in RegistrarIds :
        /\ t.answers[r] # None
        /\ IsAvailableWithPrice(t.answers[r][1])
        /\ \A q \in RegistrarIds :
              (t.answers[q] # None /\ IsAvailableWithPrice(t.answers[q][1]))
                  => t.answers[r][1].price[1] <= t.answers[q][1].price[1] }

\* position of registrar r in the order in which the queries ended
CompletedAt(t, r) == CHOOSE k \in DOMAIN t.completed : t.completed[k] = r

AllAnswered(t) == \A r \in RegistrarIds : t.answers[r] # None

\* C13 as stated: the records reach selection in completion order, so among
\* available records that share the lowest price get_domain_pricing selects
\* the record of the registrar whose response was received first.
C13_AsStated ==
    [][ (Resumes(1) /\ AllAnswered(tasks[1]) /\ Cheapest(tasks[1]) # {}) =>
          \E r \in Cheapest(tasks[1]) :
              /\ \A q \in Cheapest(tasks[1]) :
                     CompletedAt(tasks[1], r) <= CompletedAt(tasks[1], q)
              /\ tasks'[1].result[1].wholesale_registrar
                     = REGISTRAR_APIS[r].name ]_vars

\* C13 amended: the records reach selection in the order of REGISTRAR_APIS
\* (the order in which the queries were submitted), whatever the order in
\* which the responses were received; among available records that share
\* the lowest price get_domain_pricing selects the record of the registrar
\* configured first.
C13_ConfigurationOrder ==
    [][ (Resumes(1) /\ AllAnswered(tasks[1]) /\ Cheapest(tasks[1]) # {}) =>
          /\ \E r \in Cheapest(tasks[1]) :
                /\ \A q \in Cheapest(tasks[1]) : r <= q
                /\ tasks'[1].result[1].wholesale_registrar
                       = REGISTRAR_APIS[r].name
          /\ tasks[1].include_registrar_details =>
                tasks'[1].result[1].registrar_responses
                    = [r \in RegistrarIds |-> tasks[1].answers[r][1]] ]_vars

\* both registrars quote the lowest price, and the registrar configured last
\* answered first
C13_Witness ==
    /\ 1 \in DOMAIN tasks
    /\ tasks[1].pc = "querying"
    /\ AllAnswered(tasks[1])
    /\ Cardinality(Cheapest(tasks[1])) > 1
    /\ tasks[1].completed[1] = Len(REGISTRAR_APIS)

-----------------------------------------------------------------------------
(* Claims about the markup rules, checked under SpecFn *)

FnDone == fn_pc \in {"unavailable", "error", "priced"}

C15_CeilingWins ==
    (fn_pc = "priced"
        /\ (fn_quote[1].wholesale_price + MIN_PROFIT_MARGIN) * 100
               > fn_quote[1].wholesale_price * (100 + MAX_MARKUP_PERCENT)) =>
        /\ (fn_quote[1].wholesale_price + fn_quote[1].margin_amount) * 100
               = fn_quote[1].wholesale_price * (100 + MAX_MARKUP_PERCENT)
        /\ fn_quote[1].customer_currency = "USD" =>
               fn_quote[1].customer_price
                   = fn_quote[1].wholesale_price * (100 + MAX_MARKUP_PERCENT)

\* wholesale 1.00 with the 2.00 markup of "US" is quoted at 1.50
C15_Witness ==
    /\ fn_pc = "priced"
    /\ fn_location = "US"
    /\ fn_quote[1].wholesale_price = 1000
    /\ fn_quote[1].customer_price = 150000
    /\ fn_quote[1].margin_amount = 500

\* the scenario of C16: A available at 10.00, B available at 8.00,
\* C unavailable, location "US"
C16_Scenario ==
    /\ fn_location = "US"
    /\ Len(fn_responses) = 3
    /\ fn_responses[1].available /\ fn_responses[1].price = Some(10000)
    /\ fn_responses[2].available /\ fn_responses[2].price = Some(8000)
    /\ ~fn_responses[3].available

\* C16: with records A available at 10, B available at 8 and C unavailable,
\* and location "US", the quote has wholesale_price 8, wholesale_registrar B,
\* customer_price 10, margin_amount 2 and available = true.
C16_CheapestWithUsMarkup ==
    (C16_Scenario /\ FnDone) =>
        /\ fn_pc = "priced"
        /\ fn_quote[1].available
        /\ fn_quote[1].wholesale_price = 8000
        /\ fn_quote[1].wholesale_registrar = FnNames[2]
        /\ fn_quote[1].customer_price = 1000000
        /\ fn_quote[1].customer_currency = "USD"
        /\ fn_quote[1].margin_amount = 2000

\* the scenario has been priced
C16_Witness == C16_Scenario /\ fn_pc = "priced"

\* C17: for location "India" and wholesale price 8.00 the configured markup
\* (100 INR, 1.20 USD) is below MIN_PROFIT_MARGIN, so the floor applies: the
\* customer price in USD is 9.50 (margin_amount 1.50) and customer_price is
\* that amount in INR at the rate of 83, 788.50.
C17_IndiaFloor ==
    (fn_pc = "priced" /\ fn_location = "India"
        /\ fn_quote[1].wholesale_price = 8000) =>
        /\ MarkupUsd(LocationConfig("India")) = 1200
        /\ MarkupUsd(LocationConfig("India")) < MIN_PROFIT_MARGIN
        /\ fn_quote[1].margin_amount = MIN_PROFIT_MARGIN
        /\ fn_quote[1].wholesale_price + fn_quote[1].margin_amount = 9500
        /\ fn_quote[1].customer_currency = "INR"
        /\ fn_quote[1].customer_price = 9500 * 8300

\* a wholesale price of 8.00 has been quoted for "India"
C17_Witness ==
    /\ fn_pc = "priced"
    /\ fn_location = "India"
    /\ fn_quote[1].wholesale_price = 8000
    /\ fn_quote[1].customer_price = 78850000

-----------------------------------------------------------------------------
(* Claims about the order of the steps of one computation, checked under   *)
(* Spec                                                                     *)

\* C18: within one get_domain_pricing computation, selection runs only once
\* every registrar query of the fan-out has returned a record, or the fan-out
\* has been cut off by its deadline (and then on none of the records); the
\* cache is written only in the step that has applied the markup to the
\* selected record, and with the marked-up quote.
C18_StepsSequential ==
    [][ /\ Resumes(1) =>
             LET t == tasks[1]
                 all == PriceResponses(t.domain, t.customer_location,
                            t.include_registrar_details,
                            GatheredResponses(t.answers))
                 cut == PriceResponses(t.domain, t.customer_location,
                            t.include_registrar_details, <<>>)
             IN  IF AllAnswered(t)
                 THEN tasks'[1].result = Some(all.result)
                 ELSE tasks'[1].result = Some(cut.result)
        /\ \A k \in CacheKeys :
             (cache'[k] # cache[k] /\ cache'[k] # None) =>
                 /\ Resumes(1)
                 /\ AllAnswered(tasks[1])
                 /\ k = CacheKey(tasks[1].domain, tasks[1].customer_location)
                 /\ tasks'[1].path = "priced"
                 /\ cache'[k][1].value = ToCached(tasks'[1].result[1])
                 /\ cache'[k][1].value.wholesale_price > 0
                 /\ cache'[k][1].value.margin_amount
                        = CustomerPriceUsd(cache'[k][1].value.wholesale_price,
                              MarkupUsd(LocationConfig(k[2])))
                          - cache'[k][1].value.wholesale_price ]_vars

\* a call has returned a quote built from the records of all registrars and
\* the cache holds that quote
C18_Witness ==
    /\ Returned(1)
    /\ tasks[1].path = "priced"
    /\ tasks[1].include_registrar_details
    /\ Len(tasks[1].result[1].registrar_responses) = Len(REGISTRAR_APIS)
    /\ cache[CacheKey(tasks[1].domain, tasks[1].customer_location)]
           = Some([value |-> ToCached(tasks[1].result[1]),
                   ttl |-> CACHE_TTL.available])

-----------------------------------------------------------------------------
(* Claims about a failing cache, checked under SpecCacheFail *)

\* C19: a failing cache never fails pricing.  A call whose cache.get fails
\* goes on as a call that found the cache empty; a call's quote is the quote
\* computed from the registrar records whether or not cache.set fails, and a
\* failed cache.set leaves the store as it was; the call never raises.
C19_CacheFailureHarmless ==
    [][ /\ (Starts /\ ~redis_up) =>
              tasks'[1] = Task(tasks'[1].domain, tasks'[1].customer_location,
                               tasks'[1].include_registrar_details,
                               "querying", "", TRUE, None)
        /\ Resumes(1) =>
              LET t == tasks[1]
                  out == PriceResponses(t.domain, t.customer_location,
                             t.include_registrar_details,
                             IF AllAnswered(t) THEN GatheredResponses(t.answers)
                             ELSE <<>>)
              IN  /\ tasks'[1].pc = "returned"
                  /\ tasks'[1].result = Some(out.result)
                  /\ ~redis_up => cache' = cache ]_vars

\* a call has returned a quote although its cache.get and its cache.set
\* failed: its key still holds an older quote, of another price
C19_Witness ==
    /\ Returned(1)
    /\ tasks[1].path = "priced"
    /\ ~tasks[1].include_registrar_details
    /\ LET entry == cache[CacheKey(tasks[1].domain, tasks[1].customer_location)]
       IN  /\ entry # None
           /\ entry[1].value.wholesale_price
                  # tasks[1].result[1].wholesale_price

-----------------------------------------------------------------------------
(* The domain purchase service, app/services/domain_purchase_service.py,    *)
(* behind the routes of app/api/routes_domain.py.  Orders live in the       *)
(* dictionary DomainPurchaseService.orders; every coroutine runs on one     *)
(* event loop, so the code between two awaits is one step.  Timestamps      *)
(* (created_at, updated_at) and the priced amounts of an order are not      *)
(* modelled.                                                                *)

\* process_payment calls made in one behaviour
MaxPayments == 2
\* the vendors whose tokens the routes see
VendorIds == {1, 2}
\* the order ids uuid4().hex[:8] is drawn from (line 261), as numbers
OrderIds == {1, 2}

\* class OrderStatus, lines 34-42
OrderStatus ==
    [PENDING |-> "pending", PAYMENT_PROCESSING |-> "payment_processing",
     PAYMENT_FAILED |-> "payment_failed", PAID |-> "paid",
     PROCESSING |-> "processing", COMPLETED |-> "completed",
     FAILED |-> "failed", CANCELLED |-> "cancelled"]

\* class PaymentStatus, lines 51-56
PaymentStatus ==
    [PENDING |-> "pending", PROCESSING |-> "processing",
     COMPLETED |-> "completed", FAILED |-> "failed", REFUNDED |-> "refunded"]

\* class PaymentMethod, lines 44-49: the values PaymentMethod(...) accepts
PaymentMethod == {"credit_card", "paypal", "stripe", "bank_transfer", "crypto"}

\* class DomainOrder, lines 145-181, with the defaults of a new order
DomainOrder(vendor_id, domain, payment_method) ==
    [vendor_id |-> vendor_id, domain |-> domain,
     payment_method |-> payment_method,
     status |-> OrderStatus.PENDING,
     payment_status |-> PaymentStatus.PENDING,
     payment_id |-> None, domain_registration_id |-> None,
     error_message |-> None, completion_percentage |-> 0]

\* self.orders[order_id] = order
PutOrder(os, order_id, order) ==
    [id \in DOMAIN os \cup {order_id} |->
        IF id = order_id THEN order ELSE os[id]]

\* mutant: a call is turned away only once a payment has been settled
RejectsSettled(order) ==
    order.status \notin {OrderStatus.PENDING, OrderStatus.PAYMENT_PROCESSING}

\* process_payment, line 314: if order.status != OrderStatus.PENDING
RejectsPayment(order) == order.status # OrderStatus.PENDING

\* process_payment, lines 356-369: the except branch, for an order of the map
PaymentRaised(order, error) ==
    [order EXCEPT !.status = OrderStatus.PAYMENT_FAILED,
                  !.error_message = Some(error)]

\* process_payment, lines 318-319: the order as the gateway call starts
PaymentStarted(order) ==
    [order EXCEPT !.status = OrderStatus.PAYMENT_PROCESSING,
                  !.payment_status = PaymentStatus.PROCESSING]

\* process_payment, lines 327-330
PaymentSucceeded(order, payment_id) ==
    [order EXCEPT !.status = OrderStatus.PAID,
                  !.payment_status = PaymentStatus.COMPLETED,
                  !.payment_id = Some(payment_id),
                  !.completion_percentage = 25]

\* process_payment, lines 345-347
PaymentDeclined(order, error) ==
    [order EXCEPT !.status = OrderStatus.PAYMENT_FAILED,
                  !.payment_status = PaymentStatus.FAILED,
                  !.error_message = Some(error)]

\* _process_payment_gateway, lines 371-401: what the gateway of the order's
\* payment method can answer; Stripe declines one payment in twenty
\* (line 421), the other gateways accept
GatewayResults(payment_method) ==
    IF payment_method = "stripe"
    THEN {[success |-> TRUE, error |-> ""],
          [success |-> FALSE, error |-> "Your card was declined"]}
    ELSE {[success |-> TRUE, error |-> ""]}

\* a process_payment call: the vendor of the calling route, its position
\* ("gateway" while suspended in the gateway, "returned", "raised" when the
\* route answered HTTP 500), what it returned, whether it invoked the
\* gateway, and whether cancel_domain_order had answered success for the
\* order before the call
PaymentCall(order_id, vendor_id, pc, success, gateway) ==
    [order_id |-> order_id, vendor_id |-> vendor_id, pc |-> pc,
     success |-> success, gateway |-> gateway,
     after_cancel |-> order_id \in cancelled]

\* routes_domain.py, process_domain_payment, lines 557-621, up to the first
\* suspension of process_payment (lines 301-322): vendor is the vendor of
\* the request's token
ProcessDomainPayment(vendor_id, order_id) ==
    /\ Len(payments) < MaxPayments
    /\ IF order_id \notin DOMAIN orders
       THEN \* get_order_status raises ValueError: HTTP 500
            /\ payments' = Append(payments,
                   PaymentCall(order_id, vendor_id, "raised", None, FALSE))
            /\ metrics' = record_request(
                              record_error(metrics, "Order not found"),
                              FALSE, FALSE)
            /\ UNCHANGED orders
       ELSE IF RejectsPayment(orders[order_id])
       THEN /\ orders' = [orders EXCEPT ![order_id] =
                             PaymentRaised(@, "Order is not in pending status")]
            /\ payments' = Append(payments,
                   PaymentCall(order_id, vendor_id, "returned", Some(FALSE),
                               FALSE))
            /\ metrics' = record_request(metrics, FALSE, FALSE)
       ELSE /\ orders' = [orders EXCEPT ![order_id] = PaymentStarted(@)]
            /\ payments' = Append(payments,
                   PaymentCall(order_id, vendor_id, "gateway", None, TRUE))
            /\ UNCHANGED metrics
    /\ UNCHANGED <<creates, registrations, cancelled>>
    /\ UNCHANGED <<cache, session, tasks, request, ncalls>>
    /\ UNCHANGED not_po_vars

\* a _process_domain_registration task: "created" by asyncio.create_task,
\* then suspended in one of its four steps, then "done" or "failed"
RegistrationTask(order_id, pc) ==
    [order_id |-> order_id, pc |-> pc, after_cancel |-> order_id \in cancelled]

\* process_payment, lines 322-354, and the rest of the route: the gateway
\* has answered call i
GatewayReturns(i, payment_result) ==
    /\ i \in DOMAIN payments
    /\ payments[i].pc = "gateway"
    /\ LET order_id == payments[i].order_id
       IN  /\ payment_result \in GatewayResults(orders[order_id].payment_method)
           /\ IF payment_result.success
              THEN /\ orders' = [orders EXCEPT ![order_id] =
                                    PaymentSucceeded(@, i)]
                   /\ registrations' = Append(registrations,
                          RegistrationTask(order_id, "created"))
              ELSE /\ orders' = [orders EXCEPT ![order_id] =
                                    PaymentDeclined(@, payment_result.error)]
                   /\ UNCHANGED registrations
           /\ payments' = [payments EXCEPT ![i].pc = "returned",
                               ![i].success = Some(payment_result.success)]
           /\ metrics' = record_request(metrics, payment_result.success, FALSE)
    /\ UNCHANGED <<creates, cancelled>>
    /\ UNCHANGED <<cache, session, tasks, request, ncalls>>
    /\ UNCHANGED not_po_vars

\* what a step of a registration task leaves alone
RegistrationFrame ==
    /\ UNCHANGED <<creates, payments, cancelled>>
    /\ UNCHANGED svc_vars
    /\ UNCHANGED not_po_vars

\* _process_domain_registration, lines 470-483: the task's first run, up to
\* the registrar call
RegistrationStart(k) ==
    /\ k \in DOMAIN registrations
    /\ registrations[k].pc = "created"
    /\ LET order_id == registrations[k].order_id
       IN  IF order_id \notin DOMAIN orders
           THEN /\ registrations' = [registrations EXCEPT ![k].pc = "done"]
                /\ UNCHANGED orders
           ELSE /\ orders' = [orders EXCEPT
                       ![order_id].status = OrderStatus.PROCESSING,
                       ![order_id].completion_percentage = 30]
                /\ registrations' = [registrations EXCEPT ![k].pc = "register"]
    /\ RegistrationFrame

\* lines 483-484 and 515-521: _register_domain_with_registrar has returned
RegistrationRegistered(k) ==
    /\ k \in DOMAIN registrations
    /\ registrations[k].pc = "register"
    /\ orders' = [orders EXCEPT
           ![registrations[k].order_id].domain_registration_id = Some("REG"),
           ![registrations[k].order_id].completion_percentage = 60]
    /\ registrations' = [registrations EXCEPT ![k].pc = "dns"]
    /\ RegistrationFrame

\* lines 488-489: _configure_domain_dns has returned
RegistrationDnsConfigured(k) ==
    /\ k \in DOMAIN registrations
    /\ registrations[k].pc = "dns"
    /\ orders' = [orders EXCEPT
           ![registrations[k].order_id].completion_percentage = 80]
    /\ registrations' = [registrations EXCEPT ![k].pc = "deploy"]
    /\ RegistrationFrame

\* lines 493-494: _deploy_template_to_domain has returned
RegistrationDeployed(k) ==
    /\ k \in DOMAIN registrations
    /\ registrations[k].pc = "deploy"
    /\ orders' = [orders EXCEPT
           ![registrations[k].order_id].completion_percentage = 90]
    /\ registrations' = [registrations EXCEPT ![k].pc = "verify"]
    /\ RegistrationFrame

\* mutant: the task ends after the verification without marking the order
VerifiedUnmarked(k) ==
    /\ k \in DOMAIN registrations
    /\ registrations[k].pc = "verify"
    /\ registrations' = [registrations EXCEPT ![k].pc = "done"]
    /\ UNCHANGED orders
    /\ RegistrationFrame

\* lines 498-503: _verify_domain_setup has returned, the order is completed
RegistrationVerified(k) ==
    /\ k \in DOMAIN registrations
    /\ registrations[k].pc = "verify"
    /\ orders' = [orders EXCEPT
           ![registrations[k].order_id].status = OrderStatus.COMPLETED,
           ![registrations[k].order_id].completion_percentage = 100]
    /\ registrations' = [registrations EXCEPT ![k].pc = "done"]
    /\ RegistrationFrame

\* lines 507-513: the step the task is suspended in raises an Exception
RegistrationFails(k) ==
    /\ k \in DOMAIN registrations
    /\ registrations[k].pc \in {"register", "dns", "deploy", "verify"}
    /\ orders' = [orders EXCEPT
           ![registrations[k].order_id].status = OrderStatus.FAILED,
           ![registrations[k].order_id].error_message = Some("step failed")]
    /\ registrations' = [registrations EXCEPT ![k].pc = "failed"]
    /\ RegistrationFrame

\* the event loop runs task k
RegistrationRuns(k) ==
    \/ RegistrationStart(k)
    \/ RegistrationRegistered(k)
    \/ RegistrationDnsConfigured(k)
    \/ RegistrationDeployed(k)
    \/ RegistrationVerified(k)

\* routes_domain.py, cancel_domain_order, lines 803-843: an unknown order
\* is HTTP 500 (get_order_status raises), an order that is completed or
\* processing is HTTP 400, and any other order is answered
\* "Order cancelled successfully"; lines 822-823 are comments, no order is
\* changed
CancelDomainOrder(vendor_id, order_id) ==
    /\ IF order_id \notin DOMAIN orders
       THEN /\ metrics' = record_error(metrics, "Order not found")
            /\ UNCHANGED cancelled
       ELSE /\ orders[order_id].status
                   \notin {OrderStatus.COMPLETED, OrderStatus.PROCESSING}
            /\ cancelled' = cancelled \cup {order_id}
            /\ UNCHANGED metrics
    /\ UNCHANGED <<orders, creates, payments, registrations>>
    /\ UNCHANGED <<cache, session, tasks, request, ncalls>>
    /\ UNCHANGED not_po_vars

\* the orders create_purchase_order has stored before the first payment:
\* vendor 1's order, paid through any of the three gateway branches, alone
\* or beside an order of vendor 2 paid through Stripe
PurchaseMethods == {"stripe", "paypal", "credit_card"}
PendingOrders ==
    { PutOrder(<<>>, 1, DomainOrder(1, <<"a", ".", "c">>, pm)) :
        pm \in PurchaseMethods }
    \cup { PutOrder(PutOrder(<<>>, 1, DomainOrder(1, <<"a", ".", "c">>, pm)),
                    2, DomainOrder(2, <<"b", ".", "c">>, "stripe")) :
              pm \in PurchaseMethods }

InitPurchase ==
    /\ cache = NoCache
    /\ InitSvcIdle
    /\ InitFnIdle
    /\ InitRlIdle
    /\ InitCartIdle
    /\ InitPriceIdle
    /\ InitVendorIdle
    /\ orders \in PendingOrders
    /\ creates = <<>>
    /\ payments = <<>>
    /\ registrations = <<>>
    /\ cancelled = {}

NextPurchase ==
    \/ \E v \in VendorIds, id \in OrderIds : ProcessDomainPayment(v, id)
    \/ \E i \in 1..MaxPayments, r \in GatewayResults("stripe") :
           GatewayReturns(i, r)
    \/ \E k \in 1..MaxPayments : RegistrationStart(k)
    \/ \E k \in 1..MaxPayments : RegistrationRegistered(k)
    \/ \E k \in 1..MaxPayments : RegistrationDnsConfigured(k)
    \/ \E k \in 1..MaxPayments : RegistrationDeployed(k)
    \/ \E k \in 1..MaxPayments : RegistrationVerified(k)
    \/ \E k \in 1..MaxPayments : RegistrationFails(k)
    \/ \E v \in VendorIds, id \in OrderIds : CancelDomainOrder(v, id)

SpecPurchase == InitPurchase /\ [][NextPurchase]_vars

\* Payments and registrations without the cancel route, which changes no
\* order.  The event loop is fair to every task it holds: a registration
\* task that can run does run.
NextSettle ==
    \/ \E v \in VendorIds, id \in OrderIds : ProcessDomainPayment(v, id)
    \/ \E i \in 1..MaxPayments, r \in GatewayResults("stripe") :
           GatewayReturns(i, r)
    \/ \E k \in 1..MaxPayments : RegistrationStart(k)
    \/ \E k \in 1..MaxPayments : RegistrationRegistered(k)
    \/ \E k \in 1..MaxPayments : RegistrationDnsConfigured(k)
    \/ \E k \in 1..MaxPayments : RegistrationDeployed(k)
    \/ \E k \in 1..MaxPayments : RegistrationVerified(k)
    \/ \E k \in 1..MaxPayments : RegistrationFails(k)

SpecPurchaseFair ==
    /\ InitPurchase
    /\ [][NextSettle]_vars
    /\ \A k \in 1..MaxPayments : WF_vars(RegistrationRuns(k))

-----------------------------------------------------------------------------
(* Claims about orders, payments and registrations, checked under           *)
(* SpecPurchase and SpecPurchaseFair                                        *)

\* C21 as stated: after cancel_domain_order has answered success for an
\* order, no later process_payment on that order succeeds and no domain
\* registration is started for it.
C21_AsStated ==
    /\ \A i \in DOMAIN payments :
           payments[i].after_cancel => payments[i].success # Some(TRUE)
    /\ \A k \in DOMAIN registrations : ~registrations[k].after_cancel

\* the step is a step of process_payment call i: the call starts, or its
\* gateway call returns
PaymentStep(i) ==
    \/ i = Len(payments) + 1 /\ Len(payments') = i
    \/ i \in DOMAIN payments /\ payments[i].pc = "gateway"
                             /\ payments'[i].pc = "returned"

OrderState(order) == <<order.status, order.payment_status, order.payment_id>>

\* C22 as stated: process_domain_payment changes the state of an order (its
\* status, payment_status or payment_id) only when the order's vendor_id is
\* the id of the calling vendor.
C22_AsStated ==
    [][ \A i \in 1..MaxPayments :
          LET call == payments'[i]
          IN  ( /\ PaymentStep(i)
                /\ call.order_id \in DOMAIN orders
                /\ OrderState(orders'[call.order_id])
                       # OrderState(orders[call.order_id]) )
              => call.vendor_id = orders[call.order_id].vendor_id ]_vars

\* C23 as stated: a process_payment call that is rejected because the order
\* is not PENDING returns success = false and leaves the order's status,
\* payment_status and error_message as they were.
C23_AsStated ==
    [][ LET i == Len(payments) + 1
        IN  ( /\ Len(payments') = i
              /\ payments'[i].order_id \in DOMAIN orders
              /\ RejectsPayment(orders[payments'[i].order_id]) )
            => LET before == orders[payments'[i].order_id]
                   after == orders'[payments'[i].order_id]
               IN  /\ payments'[i].success = Some(FALSE)
                   /\ after.status = before.status
                   /\ after.payment_status = before.payment_status
                   /\ after.error_message = before.error_message ]_vars

GatewayCalls(order_id) ==
    { i \in DOMAIN payments :
        payments[i].order_id = order_id /\ payments[i].gateway }

RegistrationsOf(order_id) ==
    { k \in DOMAIN registrations : registrations[k].order_id = order_id }

\* C24: however process_payment calls on an order interleave, the payment
\* gateway is invoked at most once for the order and at most one
\* _process_domain_registration task is started for it.
C24_OneGatewayOneTask ==
    \A order_id \in OrderIds :
        /\ Cardinality(GatewayCalls(order_id)) <= 1
        /\ Cardinality(RegistrationsOf(order_id)) <= 1

\* a second call on the order was turned away while the first was suspended
\* in the gateway, and the first has since succeeded and started the task
C24_Witness ==
    /\ Len(payments) = 2
    /\ payments[1].order_id = payments[2].order_id
    /\ payments[1].gateway /\ payments[1].success = Some(TRUE)
    /\ ~payments[2].gateway /\ payments[2].success = Some(FALSE)
    /\ orders[payments[1].order_id].status = OrderStatus.PAID
    /\ orders[payments[1].order_id].error_message # None
    /\ RegistrationsOf(payments[1].order_id) # {}

RegistrationPending(order_id) ==
    \E k \in DOMAIN registrations :
        /\ registrations[k].order_id = order_id
        /\ registrations[k].pc \notin {"done", "failed"}

Settled(order_id) ==
    /\ order_id \in DOMAIN orders
    /\ \/ /\ orders[order_id].status = OrderStatus.COMPLETED
          /\ orders[order_id].completion_percentage = 100
       \/ orders[order_id].status = OrderStatus.FAILED

\* C25: once process_payment has succeeded for an order (its registration
\* task is started in the same step), under fair scheduling of the task the
\* order reaches status COMPLETED with completion_percentage 100, or status
\* FAILED.
C25_EventuallySettled ==
    \A order_id \in OrderIds : RegistrationPending(order_id) ~> Settled(order_id)

\* an order is completed at 100 percent by a task that has finished
C25_Witness ==
    \E k \in DOMAIN registrations :
        /\ registrations[k].pc = "done"
        /\ orders[registrations[k].order_id].status = OrderStatus.COMPLETED
        /\ orders[registrations[k].order_id].completion_percentage = 100
        /\ \E i \in DOMAIN payments :
               /\ payments[i].order_id = registrations[k].order_id
               /\ payments[i].success = Some(TRUE)

-----------------------------------------------------------------------------
(* create_purchase_order, lines 208-299.  A Python string is modelled as    *)
(* the sequence of its characters, so that strip, len and in are computed.  *)

\* create_purchase_order calls made in one behaviour
MaxCreates == 2

\* str.strip(): leading and trailing blanks removed
RECURSIVE LStrip(_)
LStrip(str) ==
    IF str # <<>> /\ Head(str) = " " THEN LStrip(Tail(str)) ELSE str

RECURSIVE RStrip(_)
RStrip(str) ==
    IF str # <<>> /\ str[Len(str)] = " "
    THEN RStrip(SubSeq(str, 1, Len(str) - 1)) ELSE str

Strip(str) == RStrip(LStrip(str))

\* character in str
Contains(str, character) == \E i \in DOMAIN str : str[i] = character

\* ContactInfo.validate: not self.x or len(self.x.strip()) < min_len
TooShort(str, min_len) == str = <<>> \/ Len(Strip(str)) < min_len

\* ContactInfo.validate, lines 73-98: the list of errors
validate(contact) ==
    LET first == IF TooShort(contact.first_name, 2)
                 THEN <<"First name must be at least 2 characters">> ELSE <<>>
        last == IF TooShort(contact.last_name, 2)
                THEN <<"Last name must be at least 2 characters">> ELSE <<>>
        email == IF contact.email = <<>> \/ ~Contains(contact.email, "@")
                 THEN <<"Valid email address is required">> ELSE <<>>
        phone == IF TooShort(contact.phone, 10)
                 THEN <<"Valid phone number is required">> ELSE <<>>
        address == IF TooShort(contact.address_line1, 5)
                   THEN <<"Valid address is required">> ELSE <<>>
        city == IF TooShort(contact.city, 2)
                THEN <<"City is required">> ELSE <<>>
        postal == IF TooShort(contact.postal_code, 3)
                  THEN <<"Valid postal code is required">> ELSE <<>>
    IN  first \o last \o email \o phone \o address \o city \o postal

\* line 222: if not domain or '.' not in domain
InvalidDomain(domain) == domain = <<>> \/ ~Contains(domain, ".")

\* what the awaited get_domain_pricing(domain, customer_location) can hand
\* back to create_purchase_order: a priced quote, the unavailable result,
\* the error result, or the exception of a cache entry it cannot read
PricingOutcomes(domain) ==
    { [raised |-> TRUE, result |-> None] } \cup
    { [raised |-> FALSE, result |-> Some(r)] :
        r \in { PriceResponses(domain, "US", FALSE,
                    << RegistrarResponse("namesilo", domain, TRUE,
                                         Some(8390), FALSE, None) >>).result,
                create_unavailable_result(domain, <<>>),
                ErrorResult(domain) } }

\* a create_purchase_order call: "pricing" while it awaits
\* get_domain_pricing, then "returned" or "raised"; a finished call keeps
\* the id it stored its order under and whether its quote was available
CreateCall(vendor_id, domain, contact, payment_method, pc, available, order_id) ==
    [vendor_id |-> vendor_id, domain |-> domain, contact |-> contact,
     payment_method |-> payment_method, pc |-> pc,
     available |-> available, order_id |-> order_id]

FinishedCreate(call, pc, available, order_id) ==
    CreateCall(call.vendor_id, <<>>, None, "", pc, available, order_id)

\* lines 220-228: the call up to its await
CreatePurchaseOrder(vendor_id, domain, contact, payment_method) ==
    /\ Len(creates) < MaxCreates
    /\ IF InvalidDomain(domain)
       THEN /\ creates' = Append(creates,
                   CreateCall(vendor_id, <<>>, None, "", "raised", None, None))
            /\ metrics' = record_error(metrics, "Invalid domain name")
       ELSE /\ creates' = Append(creates,
                   CreateCall(vendor_id, domain, contact, payment_method,
                              "pricing", None, None))
            /\ UNCHANGED metrics
    /\ UNCHANGED <<orders, payments, registrations, cancelled>>
    /\ UNCHANGED <<cache, session, tasks, request, ncalls>>
    /\ UNCHANGED not_po_vars

\* the ValueError the call raises once it has its quote, "" if none
CreateError(call, pricing_result) ==
    IF ~pricing_result.available THEN "Domain is not available for registration"
    ELSE IF validate(call.contact) # <<>> THEN "Contact validation failed"
    ELSE IF call.payment_method \notin PaymentMethod
    THEN "not a valid PaymentMethod"
    ELSE ""

\* lines 226-299: get_domain_pricing has returned or raised; order_id is
\* the id drawn by uuid4 at line 261
CreateResumes(c, pricing, order_id) ==
    /\ c \in DOMAIN creates
    /\ creates[c].pc = "pricing"
    /\ pricing \in PricingOutcomes(creates[c].domain)
    /\ LET call == creates[c]
           error == IF pricing.raised THEN "get_domain_pricing raised"
                    ELSE CreateError(call, pricing.result[1])
           available == IF pricing.raised THEN None
                        ELSE Some(pricing.result[1].available)
       IN  IF error # ""
           THEN /\ creates' = [creates EXCEPT ![c] =
                       FinishedCreate(call, "raised", available, None)]
                /\ metrics' = record_error(metrics, error)
                /\ UNCHANGED orders
           ELSE /\ orders' = PutOrder(orders, order_id,
                       DomainOrder(call.vendor_id, call.domain,
                                   call.payment_method))
                /\ creates' = [creates EXCEPT ![c] =
                       FinishedCreate(call, "returned", available,
                                      Some(order_id))]
                /\ metrics' = record_request(metrics, TRUE, FALSE)
    /\ UNCHANGED <<payments, registrations, cancelled>>
    /\ UNCHANGED <<cache, session, tasks, request, ncalls>>
    /\ UNCHANGED not_po_vars

\* the inputs of the calls: a request that passes every check, with its
\* strings at the shortest accepted length, and the requests that differ
\* from it in one argument or one contact field
MinLen ==
    [first_name |-> 2, last_name |-> 2, phone |-> 10, address_line1 |-> 5,
     city |-> 2, postal_code |-> 3]

Text(n) == [i \in 1..n |-> "x"]

GoodContact ==
    [first_name |-> Text(MinLen.first_name), last_name |-> Text(MinLen.last_name),
     email |-> <<"a", "@", "b">>, phone |-> Text(MinLen.phone),
     address_line1 |-> Text(MinLen.address_line1), city |-> Text(MinLen.city),
     postal_code |-> Text(MinLen.postal_code)]

BadValues(field) ==
    IF field = "email" THEN { <<>>, <<"a", "b">> }
    ELSE { <<>>, <<" ">> \o Text(MinLen[field] - 1) \o <<" ">> }

ContactInputs ==
    { GoodContact } \cup
    UNION { { [GoodContact EXCEPT ![f] = b] : b \in BadValues(f) } :
              f \in DOMAIN GoodContact }

DomainInputs == { <<"a", ".", "c">>, <<"a", "c">>, <<>> }
MethodInputs == { "stripe", "paypal", "cash" }

CreateInputs ==
    { [domain |-> d, contact |-> GoodContact, payment_method |-> "stripe"] :
        d \in DomainInputs } \cup
    { [domain |-> <<"a", ".", "c">>, contact |-> ct, payment_method |-> "stripe"] :
        ct \in ContactInputs } \cup
    { [domain |-> <<"a", ".", "c">>, contact |-> GoodContact, payment_method |-> pm] :
        pm \in MethodInputs }

InitCreate ==
    /\ cache = NoCache
    /\ InitSvcIdle
    /\ InitFnIdle
    /\ InitRlIdle
    /\ InitShopIdle

NextCreate ==
    \/ \E v \in VendorIds, in \in CreateInputs :
           CreatePurchaseOrder(v, in.domain, in.contact, in.payment_method)
    \/ \E c \in DOMAIN creates, id \in OrderIds :
           \E pricing \in PricingOutcomes(creates[c].domain) :
               CreateResumes(c, pricing, id)

SpecCreate == InitCreate /\ [][NextCreate]_vars

\* the step is a step of create_purchase_order call c
CreateStep(c) ==
    \/ c = Len(creates) + 1 /\ Len(creates') = c
    \/ c \in DOMAIN creates /\ creates[c].pc = "pricing"
                            /\ creates'[c].pc # "pricing"

\* C26 as stated: create_purchase_order adds an order only when the domain
\* contains a dot, the quote is available, the contact validates and the
\* payment method is a PaymentMethod; whenever it raises, the orders map is
\* unchanged; on success exactly one order is added to the map, with status
\* PENDING and payment_status PENDING.
C26_AsStated ==
    [][ \A c \in 1..MaxCreates :
          CreateStep(c) =>
            LET call == creates'[c]
            IN  /\ call.pc # "returned" => orders' = orders
                /\ call.pc = "returned" =>
                     LET in == creates[c]
                         id == call.order_id[1]
                     IN  /\ ~InvalidDomain(in.domain)
                         /\ call.available = Some(TRUE)
                         /\ validate(in.contact) = <<>>
                         /\ in.payment_method \in PaymentMethod
                         /\ id \notin DOMAIN orders
                         /\ DOMAIN orders' = DOMAIN orders \cup {id}
                         /\ \A o \in DOMAIN orders : orders'[o] = orders[o]
                         /\ orders'[id].status = OrderStatus.PENDING
                         /\ orders'[id].payment_status = PaymentStatus.PENDING
      ]_vars

-----------------------------------------------------------------------------
(* Tier pricing of the cart, app/routers/cart.py, get_price_for_quantity    *)

\* pricing tiers of one product
MaxTiers == 2
\* the largest moq of a tier; quantities run from 0 to one above it
MaxMoq == 3
TierPrices == {5, 7}

\* the rows of product_pricing_tiers of the product, by row id
TierRows(max_tiers) ==
    UNION { [1..n -> [moq : 1..MaxMoq, price : TierPrices]] : n \in 0..max_tiers }

\* mutant: the tiers are read in ascending order of moq
OrderedByMoqAscending(tiers) ==
    { [i \in DOMAIN f |-> tiers[f[i]]] :
        f \in { g \in Permutations(DOMAIN tiers) :
                  \A i, j \in DOMAIN g :
                      i < j => tiers[g[i]].moq <= tiers[g[j]].moq } }

\* lines 33-35: order_by(ProductPricingTier.moq.desc()).all(); the database
\* may return rows of equal moq in either order
OrderedByMoq(tiers) ==
    { [i \in DOMAIN f |-> tiers[f[i]]] :
        f \in { g \in Permutations(DOMAIN tiers) :
                  \A i, j \in DOMAIN g :
                      i < j => tiers[g[i]].moq >= tiers[g[j]].moq } }

\* lines 37-45, on the list the query returned
get_price_for_quantity(pricing_tiers, quantity) ==
    LET matching == { i \in DOMAIN pricing_tiers :
                        quantity >= pricing_tiers[i].moq }
    IN  IF matching # {}
        THEN pricing_tiers[CHOOSE i \in matching :
                               \A j \in matching : i <= j].price
        ELSE IF pricing_tiers # <<>>
        THEN pricing_tiers[Len(pricing_tiers)].price
        ELSE 0

InitPrice ==
    /\ cache = NoCache
    /\ InitSvcIdle
    /\ InitFnIdle
    /\ InitRlIdle
    /\ InitPoIdle
    /\ InitCartIdle
    /\ InitVendorIdle
    /\ price_pc = "input"
    /\ price_input \in [tiers : TierRows(MaxTiers), quantity : 0..(MaxMoq + 1)]
    /\ price_output = None

\* a call get_price_for_quantity(product, quantity, db)
GetPriceForQuantity ==
    /\ price_pc = "input"
    /\ \E pricing_tiers \in OrderedByMoq(price_input.tiers) :
           price_output' = Some(get_price_for_quantity(pricing_tiers,
                                                       price_input.quantity))
    /\ price_pc' = "done"
    /\ UNCHANGED price_input
    /\ UNCHANGED <<svc_vars, redis_up, fn_vars, rl_vars, po_vars, cart_vars, vendor_vars>>

NextPrice == GetPriceForQuantity

SpecPrice == InitPrice /\ [][NextPrice]_vars

\* the tiers of the input, as a set of rows
TierSet == { price_input.tiers[i] : i \in DOMAIN price_input.tiers }

\* C28: get_price_for_quantity returns the price of a tier with the largest
\* moq that does not exceed the quantity; when the quantity is below every
\* tier's moq it returns the price of a tier with the smallest moq; for a
\* product without tiers it returns 0.
C28_TierPrice ==
    price_pc = "done" =>
        LET eligible == { t \in TierSet : t.moq <= price_input.quantity }
        IN  IF TierSet = {} THEN price_output = Some(0)
            ELSE IF eligible # {}
            THEN \E t \in eligible :
                     /\ \A u \in eligible : u.moq <= t.moq
                     /\ price_output = Some(t.price)
            ELSE \E t \in TierSet :
                     /\ \A u \in TierSet : t.moq <= u.moq
                     /\ price_output = Some(t.price)

\* two tiers of different moq and price, a quantity that reaches both: the
\* price returned is the price of the higher tier
C28_Witness ==
    /\ price_pc = "done"
    /\ Len(price_input.tiers) = 2
    /\ price_input.tiers[1].moq < price_input.tiers[2].moq
    /\ price_input.tiers[2].moq <= price_input.quantity
    /\ price_input.tiers[1].price # price_input.tiers[2].price
    /\ price_output = Some(price_input.tiers[2].price)

-----------------------------------------------------------------------------
(* Cart checkout, app/routers/cart.py, checkout (lines 72-178).  The        *)
(* handler is a plain def: each request runs in a worker thread with a      *)
(* database session of its own, and sees of the other requests what they    *)
(* have committed.  A request's queries (lines 75-111) are one step, each   *)
(* db.commit() is one step.  Prices, quantities and the shipping fields are *)
(* not modelled.  An order_items row keeps, beside its order, the cart item *)
(* it was made from.                                                        *)

\* checkout requests made in one behaviour
MaxCheckouts == 2
UserIds == {1, 2}
CartItemIds == {1, 2}

\* the products table: product id -> vendor_id; product 3 has been deleted
ProductVendor == [p \in {1, 2} |-> p]

\* app/models/order.py, lines 7-11: the member names of OrderStatus
ShopOrderStatusNames == {"pending", "processing", "shipped", "delivered"}

\* app/models/order.py, lines 30-40: the attributes of OrderItem, the
\* keyword arguments its constructor accepts
OrderItemAttributes ==
    {"id", "product_id", "product_name", "quantity", "price", "order_id", "order"}

\* mutant: OrderStatus has a member Pending and OrderItem an attribute
\* vendor_id
ConstructorAccepts(model) == FALSE

\* whether building the row raises: Order(..., status=OrderStatus.Pending)
\* at lines 126-134 (AttributeError), OrderItem(..., vendor_id=vendor_id,
\* ...) at lines 146-153 (TypeError)
ConstructorRaises(model) ==
    IF model = "Order" THEN "Pending" \notin ShopOrderStatusNames
    ELSE "vendor_id" \notin OrderItemAttributes

\* app/models/models.py, lines 15-23, as add_to_cart stores it
CartItem(user_id, product_id) ==
    [user_id |-> user_id, product_id |-> product_id, status |-> "in_cart"]

\* lines 75-82: the user's in_cart rows, of the selected ids if any
SelectedItems(items, user_id, cart_item_ids) ==
    { i \in DOMAIN items :
        /\ items[i].user_id = user_id
        /\ items[i].status = "in_cart"
        /\ cart_item_ids # None => i \in cart_item_ids[1] }

\* lines 99-109: the items whose product exists, by the product's vendor, in
\* the order in which the vendors are first met
RECURSIVE GroupByVendor(_, _)
GroupByVendor(items, ids) ==
    IF ids = {} THEN <<>>
    ELSE LET first == CHOOSE i \in ids : \A j \in ids : i <= j
             vendor_id == ProductVendor[items[first].product_id]
             group == { i \in ids :
                          ProductVendor[items[i].product_id] = vendor_id }
         IN  << [vendor_id |-> vendor_id, items |-> group] >>
                 \o GroupByVendor(items, ids \ group)

\* a checkout request: "read" once its queries are done, then "returned",
\* "rejected" (HTTP 400) or "raised"; groups are the vendors still to be
\* ordered, staged the order_items rows of its session that are not yet
\* committed (with them go the status updates of their cart items);
\* overlaps tells whether another request was under way when it started
CheckoutCall(user_id, pc, read, groups) ==
    [user_id |-> user_id, pc |-> pc, read |-> read, groups |-> groups,
     staged |-> {},
     overlaps |-> \E k \in DOMAIN checkouts : checkouts[k].pc = "read"]

\* lines 73-111: the queries of a request; cart_item_ids is None or a
\* non-empty list, here the set of its ids
CheckoutStart(user_id, cart_item_ids) ==
    /\ Len(checkouts) < MaxCheckouts
    /\ LET selected == SelectedItems(cart_items, user_id, cart_item_ids)
           valid == { i \in selected :
                        cart_items[i].product_id \in DOMAIN ProductVendor }
           rejected ==
               \/ /\ cart_item_ids # None
                  /\ Cardinality(selected) # Cardinality(cart_item_ids[1])
               \/ selected = {}
               \/ valid = {}
       IN  checkouts' = Append(checkouts,
               IF rejected
               THEN CheckoutCall(user_id, "rejected", {}, <<>>)
               ELSE CheckoutCall(user_id, "read", valid,
                                 GroupByVendor(cart_items, valid)))
    /\ UNCHANGED <<cart_items, cart_orders, order_items>>
    /\ UNCHANGED <<svc_vars, redis_up, fn_vars, rl_vars, po_vars, price_vars, vendor_vars>>

\* db.commit(): the staged rows are inserted and their cart items updated
Committed(items, staged) ==
    [i \in DOMAIN items |->
        IF \E row \in staged : row.cart_item = i
        THEN [items[i] EXCEPT !.status = "checkout"]
        ELSE items[i]]

\* lines 118-170: request r goes on to its next commit: the order of the
\* next vendor (lines 126-137) followed by the staging of its items (lines
\* 139-158), or the last commit (line 170)
CheckoutProceeds(r) ==
    /\ r \in DOMAIN checkouts
    /\ checkouts[r].pc = "read"
    /\ LET call == checkouts[r]
       IN  IF call.groups = <<>>
           THEN /\ order_items' = order_items \cup call.staged
                /\ cart_items' = Committed(cart_items, call.staged)
                /\ checkouts' = [checkouts EXCEPT ![r].pc = "returned",
                                                  ![r].staged = {}]
                /\ UNCHANGED cart_orders
           ELSE IF ConstructorRaises("Order")
           THEN /\ checkouts' = [checkouts EXCEPT ![r].pc = "raised",
                                                  ![r].staged = {}]
                /\ UNCHANGED <<cart_items, cart_orders, order_items>>
           ELSE LET group == Head(call.groups)
                    order_id == Cardinality(cart_orders) + 1
                IN  /\ cart_orders' = cart_orders \cup
                           { [id |-> order_id, vendor_id |-> group.vendor_id] }
                    /\ order_items' = order_items \cup call.staged
                    /\ cart_items' = Committed(cart_items, call.staged)
                    /\ checkouts' =
                           IF ConstructorRaises("OrderItem")
                           THEN [checkouts EXCEPT ![r].pc = "raised",
                                                  ![r].staged = {}]
                           ELSE [checkouts EXCEPT
                                     ![r].groups = Tail(call.groups),
                                     ![r].staged =
                                         { [cart_item |-> i, order_id |-> order_id] :
                                             i \in group.items }]
    /\ UNCHANGED <<svc_vars, redis_up, fn_vars, rl_vars, po_vars, price_vars, vendor_vars>>

\* the carts add_to_cart has filled: user 1's item of product 1, alone or
\* beside a second item of user 1 or user 2
Carts ==
    { << CartItem(1, 1) >> } \cup
    { << CartItem(1, 1), second >> :
        second \in { CartItem(1, p) : p \in {1, 2, 3} } \cup { CartItem(2, 1) } }

InitCart ==
    /\ cache = NoCache
    /\ InitSvcIdle
    /\ InitFnIdle
    /\ InitRlIdle
    /\ InitPoIdle
    /\ InitPriceIdle
    /\ InitVendorIdle
    /\ cart_items \in Carts
    /\ cart_orders = {}
    /\ order_items = {}
    /\ checkouts = <<>>

NextCart ==
    \/ \E u \in UserIds :
       \E ids \in {None} \cup { Some(chosen) : chosen \in SUBSET CartItemIds \ {{}} } :
           CheckoutStart(u, ids)
    \/ \E r \in 1..MaxCheckouts : CheckoutProceeds(r)

SpecCart == InitCart /\ [][NextCart]_vars

\* the orders that hold an order item made from cart item i
OrdersOf(i) == { row.order_id : row \in { x \in order_items : x.cart_item = i } }

-----------------------------------------------------------------------------
(* The Vendor row, app/models/vendor.py: profile completion and risk score. *)
(* A column is None or a string, a string the sequence of its characters.   *)
(* account_number and routing_code are the values their properties return.  *)

\* fields of the filled profile that a drawn row leaves unfilled
MaxUnfilled == 1

\* lines 286-290
RequiredFields ==
    <<"business_name", "owner_name", "email", "phone", "address", "city",
      "state", "country", "business_category">>

\* lines 294-299
OptionalFields ==
    <<"business_type", "business_description", "website_url", "gst_number",
      "hst_pst_number", "bank_name", "account_number", "routing_code",
      "account_holder_name", "alternate_email", "alternate_phone">>

ProfileFields ==
    { RequiredFields[i] : i \in DOMAIN RequiredFields } \cup
    { OptionalFields[i] : i \in DOMAIN OptionalFields }

\* Python truth of a column: neither None nor the empty string
Truthy(field) == field # None /\ field[1] # <<>>

\* lines 291 and 300: field and str(field).strip()
Filled(field) == Truthy(field) /\ Strip(field[1]) # <<>>

\* calculate_profile_completion, lines 280-303.  completed_fields is
\* counted in halves (a required field 2, an optional field 1), so that
\* int((completed_fields / 20) * 100) is the integer quotient by 40.
calculate_profile_completion(v) ==
    LET required == Cardinality({ i \in DOMAIN RequiredFields :
                                    Filled(v[RequiredFields[i]]) })
        optional == Cardinality({ i \in DOMAIN OptionalFields :
                                    Filled(v[OptionalFields[i]]) })
        percentage == ((2 * required + optional) * 100) \div 40
    IN  IF percentage < 100 THEN percentage ELSE 100

\* update_profile_completion, lines 305-309
update_profile_completion(v) ==
    LET percentage == calculate_profile_completion(v)
    IN  [v EXCEPT !.profile_completion_percentage = percentage,
                  !.profile_completed = (percentage >= 80)]

India == <<"I", "n", "d", "i", "a">>
Canada == <<"C", "a", "n", "a", "d", "a">>

\* the score before it is brought into 0..100, without the tax term
RiskBase(v) ==
    50
    - (IF v.profile_completed THEN 20 ELSE 0)
    - (IF v.is_verified THEN 30 ELSE 0)
    + (IF v.country = Some(Canada) /\ ~Truthy(v.hst_pst_number) THEN 25 ELSE 0)
    - (IF Truthy(v.bank_name) /\ Truthy(v.account_number) THEN 15 ELSE 0)
    - (IF Truthy(v.business_description) /\ Len(v.business_description[1]) > 50
       THEN 10 ELSE 0)
    - (IF Truthy(v.website_url) THEN 5 ELSE 0)

\* mutant: a missing GST number costs nothing
GstIgnored(v) == 0

\* lines 245-246: if self.country == "India" and not self.gst_number
GstPenalty(v) ==
    IF v.country = Some(India) /\ ~Truthy(v.gst_number) THEN 25 ELSE 0

\* calculate_risk_score, lines 233-264
calculate_risk_score(v) ==
    LET score == RiskBase(v) + GstPenalty(v)
        capped == IF score < 100 THEN score ELSE 100
    IN  IF capped > 0 THEN capped ELSE 0

\* the rows of the harness
FilledText == Some(<<"x">>)
UnfilledValues == { None, Some(<<>>), Some(<<" ">>) }

FilledVendor ==
    [f \in ProfileFields \cup {"profile_completed", "is_verified",
                                "profile_completion_percentage"} |->
        IF f = "profile_completed" \/ f = "is_verified" THEN FALSE
        ELSE IF f = "profile_completion_percentage" THEN 0
        ELSE IF f = "country" THEN Some(India)
        ELSE FilledText]

\* the filled profile with at most n of its fields unfilled
RECURSIVE Unfilling(_)
Unfilling(n) ==
    IF n = 0 THEN { FilledVendor }
    ELSE Unfilling(n - 1) \cup
         UNION { { [v EXCEPT ![f] = u] : u \in UnfilledValues, f \in ProfileFields } :
                   v \in Unfilling(n - 1) }

\* Vendor(): every column None, the row of the tests before they fill it
EmptyVendor ==
    [f \in DOMAIN FilledVendor |->
        IF f \in ProfileFields THEN None ELSE FilledVendor[f]]

\* the rows that differ in what calculate_risk_score reads
RiskVendors ==
    { [FilledVendor EXCEPT !.profile_completed = pc, !.is_verified = iv,
                           !.country = co, !.hst_pst_number = hst,
                           !.bank_name = bn, !.account_number = an,
                           !.business_description = bd, !.website_url = wu] :
        pc \in BOOLEAN, iv \in BOOLEAN, co \in {Some(India), Some(Canada)},
        hst \in {None, FilledText}, bn \in {None, FilledText},
        an \in {None, FilledText},
        bd \in {None, Some([i \in 1..50 |-> "x"]), Some([i \in 1..51 |-> "x"])},
        wu \in {None, FilledText} }

VendorRows(max_unfilled) ==
    Unfilling(max_unfilled) \cup { EmptyVendor } \cup RiskVendors

InitVendor ==
    /\ cache = NoCache
    /\ InitSvcIdle
    /\ InitFnIdle
    /\ InitRlIdle
    /\ InitPoIdle
    /\ InitCartIdle
    /\ InitPriceIdle
    /\ vendor_pc = "input"
    /\ vendor \in VendorRows(MaxUnfilled)
    /\ vendor_risk = None

VendorFrame ==
    UNCHANGED <<svc_vars, redis_up, fn_vars, rl_vars, po_vars, cart_vars, price_vars>>

\* vendor.update_profile_completion()
UpdateProfileCompletion ==
    /\ vendor_pc = "input"
    /\ vendor' = update_profile_completion(vendor)
    /\ vendor_pc' = "updated"
    /\ UNCHANGED vendor_risk
    /\ VendorFrame

\* vendor.calculate_risk_score() without a GST number, then with one set
CalculateRiskScore ==
    /\ vendor_pc \in {"input", "updated"}
    /\ vendor_risk = None
    /\ vendor_risk' = Some(
           [without |-> calculate_risk_score([vendor EXCEPT !.gst_number = None]),
            with |-> calculate_risk_score([vendor EXCEPT !.gst_number = FilledText])])
    /\ UNCHANGED <<vendor, vendor_pc>>
    /\ VendorFrame

NextVendor == UpdateProfileCompletion \/ CalculateRiskScore

SpecVendor == InitVendor /\ [][NextVendor]_vars

\* C29 as stated: a vendor whose required and optional profile fields are
\* all filled is marked profile_completed = true, with a completion
\* percentage of at least 80, by update_profile_completion.
C29_AsStated ==
    ( /\ vendor_pc = "updated"
      /\ \A f \in ProfileFields : Filled(vendor[f]) )
    => /\ vendor.profile_completed
       /\ vendor.profile_completion_percentage >= 80

\* C30 as stated: for every vendor with country "India" the risk score with
\* a GST number set is strictly lower than the score of the same vendor
\* without a GST number.
C30_AsStated ==
    (vendor_risk # None /\ vendor.country = Some(India))
    => vendor_risk[1].with < vendor_risk[1].without

\* C30: for every vendor with country "India" the risk score with a GST
\* number set is never higher than the score without one, and it is
\* strictly lower whenever the score without one is above 0.
C30_LowerUnlessZero ==
    (vendor_risk # None /\ vendor.country = Some(India))
    => /\ vendor_risk[1].with <= vendor_risk[1].without
       /\ vendor_risk[1].without > 0
              => vendor_risk[1].with < vendor_risk[1].without

\* the vendor of the test: India, not verified; 75 without GST, 50 with
C30_Witness ==
    /\ vendor_risk # None
    /\ vendor.country = Some(India)
    /\ ~vendor.is_verified /\ ~vendor.profile_completed
    /\ vendor_risk[1].without = 75
    /\ vendor_risk[1].with = 50

====
